---------------------------- MODULE Spec2Model ----------------------------
(***************************************************************************)
(* A model of the multi-source signal aggregation engine of                *)
(* trading_bot_v2: the Vote contract, the technical indicator tools, the   *)
(* fundamental and sentiment tools, and the collector (run_once) with its  *)
(* SQLite persistence.                                                     *)
(*                                                                         *)
(* Numbers.  Prices, volumes and thresholds are integers.  Every derived   *)
(* quantity of the code that is a quotient (an average, an RSI value, a    *)
(* confidence) is an exact rational <<n, d>> with d > 0 in lowest terms;   *)
(* <<0, 0>> is the float NaN.  Comparisons that involve a standard         *)
(* deviation are decided exactly on the squares.                           *)
(***************************************************************************)
EXTENDS Integers, Sequences, FiniteSets, TLC

VARIABLES
    tool,       \* the tool a tool-level specification applies ("run_once" in a run)
    close,      \* the close-price series handed to the tool / fetched by run_once
    volume,     \* the volume series, aligned with close
    params,     \* the keyword arguments of the tool call
    result,     \* what the call produced: a Vote, a raised exception, or NoResult
    pc,         \* where run_once stands ("idle" between calls)
    db,         \* the SQLite database: runs, votes, sentiment_comments
    locals,     \* the locals of the running run_once call
    calls       \* the history of the finished run_once calls

vars == <<tool, close, volume, params, result, pc, db, locals, calls>>

-----------------------------------------------------------------------------
(* Bounds of the model *)

MaxPrice == 3
MaxLen == 4
MaxPeriod == 2

-----------------------------------------------------------------------------
(* Arithmetic helpers *)

Abs(x) == IF x < 0 THEN -x ELSE x
Max(a, b) == IF a >= b THEN a ELSE b
Min(a, b) == IF a <= b THEN a ELSE b

RECURSIVE GCD(_, _)
GCD(a, b) == IF b = 0 THEN a ELSE GCD(b, a % b)

RECURSIVE Pow(_, _)
Pow(b, e) == IF e = 0 THEN 1 ELSE b * Pow(b, e - 1)

\* The float NaN.
NaN == <<0, 0>>
IsNaN(r) == r[2] = 0

\* The rational n/d in lowest terms with a positive denominator.
Rat(n, d) ==
    IF d = 0 THEN NaN
    ELSE LET g == GCD(Abs(n), Abs(d))
             s == IF d < 0 THEN -1 ELSE 1
         IN <<(s * n) \div g, (s * d) \div g>>

\* Float comparisons: every comparison with NaN is false.
RLe(a, b) == ~IsNaN(a) /\ ~IsNaN(b) /\ a[1] * b[2] <= b[1] * a[2]
RLt(a, b) == ~IsNaN(a) /\ ~IsNaN(b) /\ a[1] * b[2] < b[1] * a[2]
RGe(a, b) == RLe(b, a)
RGt(a, b) == RLt(b, a)

\* All sequences over S of length lo..hi.
SeqsOf(S, lo, hi) == UNION {[1..n -> S] : n \in lo..hi}

-----------------------------------------------------------------------------
(* The Vote contract: the values the tools use *)

NoResult == [kind |-> "none"]
Raised(exc) == [kind |-> "raised", exc |-> exc]
Returned(v) == [kind |-> "vote", v |-> v]

NoData == <<>>
Half == Rat(1, 2)

Vote(pillar, name, signal, vote, conf, reason, data) ==
    [pillar |-> pillar, tool |-> name, signal |-> signal, vote |-> vote,
     confidence |-> conf, reason |-> reason, data |-> data]

-----------------------------------------------------------------------------
(* RSI: src/pillars/technicals/rsi.py *)

\* delta = s.diff() at index t (1-based, t >= 2); gain and loss are its
\* positive and negative parts.
Delta(s, t) == s[t] - s[t - 1]
Gain(s, t) == Max(Delta(s, t), 0)
Loss(s, t) == Max(-Delta(s, t), 0)

\* ewm(alpha=1/period, adjust=False) of gain (loss) at index t, times
\* period^(t-2): y_2 = x_2, y_t = (1 - alpha) y_(t-1) + alpha x_t.
RECURSIVE EwmGain(_, _, _)
EwmGain(s, period, t) ==
    IF t = 2 THEN Gain(s, 2)
    ELSE (period - 1) * EwmGain(s, period, t - 1) + Pow(period, t - 2) * Gain(s, t)

RECURSIVE EwmLoss(_, _, _)
EwmLoss(s, period, t) ==
    IF t = 2 THEN Loss(s, 2)
    ELSE (period - 1) * EwmLoss(s, period, t - 1) + Pow(period, t - 2) * Loss(s, t)

\* A warm-up that is one observation too long.
RsiFirstIndexLate(period) == period + 2

\* min_periods=period: the averages exist from the period-th difference on,
\* that is from index period + 1 on.
RsiFirstIndex(period) == period + 1

\* The RSI series at index t: NaN before the warm-up is over and NaN where
\* the average loss is zero (avg_loss.replace(0, nan)); otherwise
\* 100 - 100 / (1 + avg_gain / avg_loss) = 100 avg_gain / (avg_gain + avg_loss).
_rsi_from_close(s, period, t) ==
    IF t < RsiFirstIndex(period) \/ t < 2 THEN NaN
    ELSE LET g == EwmGain(s, period, t)
             l == EwmLoss(s, period, t)
         IN IF l = 0 THEN NaN ELSE Rat(100 * g, g + l)

\* The indices that survive dropna().
RsiValid(s, period) == {t \in 1..Len(s) : ~IsNaN(_rsi_from_close(s, period, t))}

RsiDecide(val, oversold, overbought) ==
    IF RLe(val, Rat(oversold, 1)) THEN "BUY"
    ELSE IF RGe(val, Rat(overbought, 1)) THEN "SELL"
    ELSE "HOLD"

RSIIndicator_compute(s, period, oversold, overbought) ==
    IF Len(s) > 0 /\ period = 0 THEN Raised("ZeroDivisionError")
    ELSE LET valid == RsiValid(s, period) IN
      IF valid = {} THEN
        Returned(Vote("technicals", "RSI", "HOLD", 0, Half, "insufficient data", NoData))
      ELSE
        LET last == CHOOSE t \in valid : \A u \in valid : u <= t
            val == _rsi_from_close(s, period, last)
            signal == RsiDecide(val, oversold, overbought)
            data == [last |-> val, period |-> period,
                     oversold |-> oversold, overbought |-> overbought]
        IN CASE signal = "BUY" ->
                  Returned(Vote("technicals", "RSI", "BUY", 1, Rat(6, 10), "RSI <= oversold", data))
             [] signal = "SELL" ->
                  Returned(Vote("technicals", "RSI", "SELL", -1, Rat(6, 10), "RSI >= overbought", data))
             [] OTHER ->
                  Returned(Vote("technicals", "RSI", "HOLD", 0, Half, "RSI between oversold and overbought", data))

-----------------------------------------------------------------------------
(* Bollinger bands: src/pillars/technicals/bollinger.py *)

RECURSIVE SumFrom(_, _, _)
SumFrom(s, lo, hi) ==
    IF lo > hi THEN 0
    ELSE IF lo = hi THEN s[lo]
    ELSE LET mid == (lo + hi) \div 2
         IN SumFrom(s, lo, mid) + SumFrom(s, mid + 1, hi)

RECURSIVE SumSqFrom(_, _, _)
SumSqFrom(s, lo, hi) == IF lo > hi THEN 0 ELSE s[hi] * s[hi] + SumSqFrom(s, lo, hi - 1)

\* The last rolling window of s: with S its sum, Q its sum of squares and p
\* the last price,
\*   ma = S / W,   sd^2 = (W Q - S^2) / (W (W - 1))   (ddof = 1),
\*   BollDev = W (p - ma),   BollVar = W (W - 1) sd^2.
BollSum(s, W) == SumFrom(s, Len(s) - W + 1, Len(s))
BollDev(s, W) == W * s[Len(s)] - BollSum(s, W)
BollVar(s, W) == W * SumSqFrom(s, Len(s) - W + 1, Len(s)) - BollSum(s, W) * BollSum(s, W)

\* (p - ma)^2 and (k sd)^2 over the common denominator W^2 (W - 1) kd^2,
\* for k = kn / kd >= 0.
BollDevSq(s, W, kd) == BollDev(s, W) * BollDev(s, W) * kd * kd * (W - 1)
BollBandSq(s, W, kn) == kn * kn * BollVar(s, W) * W

\* The standard deviation of a single observation is NaN, and so are both
\* bands: every comparison with them is false.
BollBandsNaN(W) == W = 1

\* price > upper, price >= upper, price < lower, price <= lower.
BollAboveUpper(s, W, kn, kd) ==
    ~BollBandsNaN(W) /\ BollDev(s, W) > 0 /\ BollDevSq(s, W, kd) > BollBandSq(s, W, kn)
BollAtOrAboveUpper(s, W, kn, kd) ==
    ~BollBandsNaN(W) /\ BollDev(s, W) >= 0 /\ BollDevSq(s, W, kd) >= BollBandSq(s, W, kn)
BollBelowLower(s, W, kn, kd) ==
    ~BollBandsNaN(W) /\ BollDev(s, W) < 0 /\ BollDevSq(s, W, kd) > BollBandSq(s, W, kn)
BollAtOrBelowLower(s, W, kn, kd) ==
    ~BollBandsNaN(W) /\ BollDev(s, W) <= 0 /\ BollDevSq(s, W, kd) >= BollBandSq(s, W, kn)

\* A decision that ignores equal_is_inside (a tie is always inside).
BollDecideTieInside(s, W, kn, kd, equal_is_inside) ==
    IF BollAboveUpper(s, W, kn, kd) THEN "SELL"
    ELSE IF BollBelowLower(s, W, kn, kd) THEN "BUY"
    ELSE "HOLD"

\* A decision that tests the upper band one window too far back in the rise:
\* SELL as soon as the price is above the rolling mean.
BollDecideAboveMean(s, W, kn, kd, equal_is_inside) ==
    IF ~BollBandsNaN(W) /\ BollDev(s, W) > 0 THEN "SELL"
    ELSE IF BollBelowLower(s, W, kn, kd) THEN "BUY"
    ELSE "HOLD"

BollDecide(s, W, kn, kd, equal_is_inside) ==
    IF equal_is_inside
    THEN IF BollAboveUpper(s, W, kn, kd) THEN "SELL"
         ELSE IF BollBelowLower(s, W, kn, kd) THEN "BUY"
         ELSE "HOLD"
    ELSE IF BollAtOrAboveUpper(s, W, kn, kd) THEN "SELL"
         ELSE IF BollAtOrBelowLower(s, W, kn, kd) THEN "BUY"
         ELSE "HOLD"

\* floor(m * n / d) for 0 <= n, 0 < d, computed one decimal digit of m at
\* a time so that no intermediate product leaves the 32-bit range:
\* the pair <<q, r>> stands for q + r / d.
MulStep(qr, f, d) == <<f * qr[1] + ((f * qr[2]) \div d), (f * qr[2]) % d>>
Floor40000(n, d) ==
    LET x0 == <<n \div d, n % d>>
        x1 == MulStep(x0, 10, d)
        x2 == MulStep(x1, 10, d)
        x3 == MulStep(x2, 10, d)
        x4 == MulStep(x3, 10, d)
    IN MulStep(x4, 4, d)[1]

\* The largest m in lo..hi with m * m <= x, or lo when there is none.
RECURSIVE ISqrtBetween(_, _, _)
ISqrtBetween(x, lo, hi) ==
    IF lo >= hi THEN lo
    ELSE LET mid == (lo + hi + 1) \div 2
         IN IF mid * mid <= x THEN ISqrtBetween(x, mid, hi) ELSE ISqrtBetween(x, lo, mid - 1)

\* The least m >= n with (m + 1) * (m + 1) > x; 46340 is the largest
\* integer whose square stays in the 32-bit range.
ISqrtFrom(x, n) == ISqrtBetween(x, n, Min(x, 46340))

\* conf = min(0.9, 0.5 + 0.4 min(2, outside / bandwidth)) for a BUY or a
\* SELL, in thousandths rounded down.  With a = |p - ma| and b = k sd,
\* bandwidth = max(1e-9, 2 b) and outside = a - b, so for b > 0
\* conf = min(0.9, 0.3 + 0.2 a / b), and a / b = sqrt(DevSq / BandSq).
BollConfMilli(s, W, kn, kd) ==
    LET L == BollDevSq(s, W, kd)
        R == BollBandSq(s, W, kn)
    IN IF R = 0 THEN (IF L = 0 THEN 500 ELSE 900)
       ELSE IF L >= 9 * R THEN 900
       ELSE Min(900, 300 + ISqrtFrom(Floor40000(L, R), 200))

BollingerIndicator_compute(s, window, kn, kd, equal_is_inside) ==
    IF Len(s) < window THEN
        Returned(Vote("technicals", "BOLLINGER", "HOLD", 0, Half, "insufficient data", NoData))
    ELSE
        LET signal == BollDecide(s, window, kn, kd, equal_is_inside)
            data == [price |-> s[Len(s)], ma |-> Rat(BollSum(s, window), window),
                     window |-> window, k |-> Rat(kn, kd)]
        IN CASE signal = "SELL" ->
                  Returned(Vote("technicals", "BOLLINGER", "SELL", -1,
                                Rat(BollConfMilli(s, window, kn, kd), 1000),
                                "Price > upper", data))
             [] signal = "BUY" ->
                  Returned(Vote("technicals", "BOLLINGER", "BUY", 1,
                                Rat(BollConfMilli(s, window, kn, kd), 1000),
                                "Price < lower", data))
             [] OTHER ->
                  Returned(Vote("technicals", "BOLLINGER", "HOLD", 0, Half,
                                "Price inside bands", data))

-----------------------------------------------------------------------------
(* Triple SMA: src/pillars/technicals/triple_sma.py *)

\* s.rolling(window, min_periods=window).mean() at index t, times window:
\* defined for t >= window.
SmaSum(s, w, t) == SumFrom(s, t - w + 1, t)

\* The number of values of the rolling mean that survive dropna().
SmaCount(s, w) == IF Len(s) >= w THEN Len(s) - w + 1 ELSE 0

\* The last value of a rolling mean that needs one observation only.
SmaLastPartial(s, w) ==
    IF Len(s) = 0 THEN NaN
    ELSE Rat(SumFrom(s, Max(1, Len(s) - w + 1), Len(s)), Min(w, Len(s)))

\* float(ma.dropna().iloc[-1]), or None (here NaN) when there is none.
SmaLast(s, w) == IF SmaCount(s, w) = 0 THEN NaN ELSE Rat(SmaSum(s, w, Len(s)), w)

\* Sums over the last n values y_0 .. y_(n-1) of the rolling mean, with
\* x_j = j: sum of y_j and sum of j y_j (both times the window).
RECURSIVE SlopeSumY(_, _, _, _)
SlopeSumY(s, w, n, j) ==
    IF j < 0 THEN 0
    ELSE SmaSum(s, w, Len(s) - n + 1 + j) + SlopeSumY(s, w, n, j - 1)

RECURSIVE SlopeSumXY(_, _, _, _)
SlopeSumXY(s, w, n, j) ==
    IF j < 0 THEN 0
    ELSE j * SmaSum(s, w, Len(s) - n + 1 + j) + SlopeSumXY(s, w, n, j - 1)

RECURSIVE SumInts(_)
SumInts(n) == IF n <= 0 THEN 0 ELSE n + SumInts(n - 1)

RECURSIVE SumIntSq(_)
SumIntSq(n) == IF n <= 0 THEN 0 ELSE n * n + SumIntSq(n - 1)

\* np.polyfit(x, y, 1)[0] over the last last_n points of the rolling mean:
\* (n Sxy - Sx Sy) / (n Sxx - Sx^2); 0.0 when fewer than max(3, last_n)
\* points exist.
_slope(s, w, last_n) ==
    IF SmaCount(s, w) < Max(3, last_n) THEN Rat(0, 1)
    ELSE LET n == last_n
             sx == SumInts(n - 1)
             sxx == SumIntSq(n - 1)
             sy == SlopeSumY(s, w, n, n - 1)
             sxy == SlopeSumXY(s, w, n, n - 1)
         IN Rat(n * sxy - sx * sy, w * (n * sxx - sx * sx))

\* _rel: where the price stands against an average.
_rel(p, m, equal_is_below) ==
    IF IsNaN(m) THEN "n/a"
    ELSE IF RGt(Rat(p, 1), m) THEN "above"
    ELSE IF Rat(p, 1) = m THEN (IF equal_is_below THEN "below" ELSE "above")
    ELSE "below"

RNeg(r) == <<-r[1], r[2]>>

\* A decision whose stack test lets equal averages through.
TripleDecideLoose(v1, v2, v3, s1, s2, s3, tol) ==
    LET have_vals == ~IsNaN(v1) /\ ~IsNaN(v2) /\ ~IsNaN(v3)
        bullish_stack == have_vals /\ RGe(v1, v2) /\ RGe(v2, v3)
        bearish_stack == have_vals /\ RLe(v1, v2) /\ RLe(v2, v3)
        bullish_slopes == RGe(s1, tol) /\ RGe(s2, tol) /\ RGe(s3, tol)
        bearish_slopes == RLe(s1, RNeg(tol)) /\ RLe(s2, RNeg(tol)) /\ RLe(s3, RNeg(tol))
    IN IF bullish_stack /\ bullish_slopes THEN "BUY"
       ELSE IF bearish_stack /\ bearish_slopes THEN "SELL"
       ELSE "HOLD"

TripleDecide(v1, v2, v3, s1, s2, s3, tol) ==
    LET have_vals == ~IsNaN(v1) /\ ~IsNaN(v2) /\ ~IsNaN(v3)
        bullish_stack == have_vals /\ RGt(v1, v2) /\ RGt(v2, v3)
        bearish_stack == have_vals /\ RLt(v1, v2) /\ RLt(v2, v3)
        bullish_slopes == RGe(s1, tol) /\ RGe(s2, tol) /\ RGe(s3, tol)
        bearish_slopes == RLe(s1, RNeg(tol)) /\ RLe(s2, RNeg(tol)) /\ RLe(s3, RNeg(tol))
    IN IF bullish_stack /\ bullish_slopes THEN "BUY"
       ELSE IF bearish_stack /\ bearish_slopes THEN "SELL"
       ELSE "HOLD"

TripleSMAIndicator_compute(s, windows, equal_is_below, slope_window, slope_tol) ==
    IF Len(s) = 0 THEN
        Returned(Vote("technicals", "TRIPLE_SMA", "HOLD", 0, Half, "no price data", NoData))
    ELSE
        LET w1 == windows[1]
            w2 == windows[2]
            w3 == windows[3]
            price == s[Len(s)]
            v1 == SmaLast(s, w1)
            v2 == SmaLast(s, w2)
            v3 == SmaLast(s, w3)
            s1 == _slope(s, w1, slope_window)
            s2 == _slope(s, w2, slope_window)
            s3 == _slope(s, w3, slope_window)
            signal == TripleDecide(v1, v2, v3, s1, s2, s3, slope_tol)
            data == [price |-> price, windows |-> windows,
                     values |-> <<v1, v2, v3>>,
                     above_below |-> <<_rel(price, v1, equal_is_below),
                                       _rel(price, v2, equal_is_below),
                                       _rel(price, v3, equal_is_below)>>,
                     slopes |-> [s |-> <<s1, s2, s3>>, window |-> slope_window,
                                 tol |-> slope_tol]]
        IN CASE signal = "BUY" ->
                  Returned(Vote("technicals", "TRIPLE_SMA", "BUY", 1, Rat(6, 10),
                                "Bullish stack S1>S2>S3 with non-negative slopes", data))
             [] signal = "SELL" ->
                  Returned(Vote("technicals", "TRIPLE_SMA", "SELL", -1, Rat(6, 10),
                                "Bearish stack S1<S2<S3 with non-positive slopes", data))
             [] OTHER ->
                  Returned(Vote("technicals", "TRIPLE_SMA", "HOLD", 0, Half,
                                "Mixed stack or conflicting slopes", data))

-----------------------------------------------------------------------------
(* Price / volume divergence: src/pillars/technicals/price_volume.py *)

RAdd(a, b) == IF IsNaN(a) \/ IsNaN(b) THEN NaN ELSE Rat(a[1] * b[2] + b[1] * a[2], a[2] * b[2])
RSub(a, b) == IF IsNaN(a) \/ IsNaN(b) THEN NaN ELSE Rat(a[1] * b[2] - b[1] * a[2], a[2] * b[2])
RMul(a, b) == IF IsNaN(a) \/ IsNaN(b) THEN NaN ELSE Rat(a[1] * b[1], a[2] * b[2])
RDiv(a, b) == IF IsNaN(a) \/ IsNaN(b) THEN NaN ELSE Rat(a[1] * b[2], a[2] * b[1])
RMin(a, b) == IF RLe(a, b) THEN a ELSE b
RMax(a, b) == IF RGe(a, b) THEN a ELSE b

\* c and v are aligned (v is reindexed on c's index); vol_ratio_min is a
\* rational.  window >= 1.
PriceVolumeIndicator_compute(c, v, window, vol_ratio_min) ==
    IF Len(c) < window * 2 THEN
        Returned(Vote("technicals", "PRICE_VOLUME", "HOLD", 0, Half, "insufficient data", NoData))
    ELSE
        LET n == Len(c)
            recent_last == c[n]
            prior_last == c[n - window]
            recent_v == SumFrom(v, n - window + 1, n)
            prior_v == SumFrom(v, n - 2 * window + 1, n - window)
            price_change == IF prior_last # 0
                            THEN RSub(Rat(recent_last, prior_last), Rat(1, 1))
                            ELSE Rat(0, 1)
            vol_ratio == IF prior_v # 0 THEN Rat(recent_v, prior_v) ELSE Rat(0, 1)
            rising_vol == RGe(vol_ratio, vol_ratio_min)
            rising_price == RGt(price_change, Rat(0, 1))
            falling_price == RLt(price_change, Rat(0, 1))
            data == [window |-> window, price_change |-> price_change, vol_ratio |-> vol_ratio]
        IN IF rising_price /\ rising_vol THEN
                Returned(Vote("technicals", "PRICE_VOLUME", "BUY", 1, Rat(55, 100),
                              "Price up with Volume up", data))
           ELSE IF falling_price /\ rising_vol THEN
                Returned(Vote("technicals", "PRICE_VOLUME", "SELL", -1, Rat(55, 100),
                              "Price down with Volume up", data))
           ELSE Returned(Vote("technicals", "PRICE_VOLUME", "HOLD", 0, Half,
                              "Price change, Vol ratio", data))

-----------------------------------------------------------------------------
(* History similarity: src/pillars/technicals/hist_similarity.py *)

RECURSIVE SumProd(_, _, _, _)
\* sum over j = 1..W of s[a + j] * s[b + j]
SumProd(s, a, b, W) ==
    IF W = 0 THEN 0 ELSE s[a + W] * s[b + W] + SumProd(s, a, b, W - 1)

\* W^2 times the variance of the window that starts after offset a, and W^2
\* times the covariance of the windows that start after offsets a and b.
HsVar(s, a, W) == W * SumProd(s, a, a, W) - SumFrom(s, a + 1, a + W) * SumFrom(s, a + 1, a + W)
HsCov(s, a, b, W) == W * SumProd(s, a, b, W) - SumFrom(s, a + 1, a + W) * SumFrom(s, b + 1, b + W)

\* An entry whose forward price is taken one observation later.
HsScoreForwardLate(s, i, W, H) ==
    LET r == Len(s) - W
    IN [asof |-> i + W,
        nan |-> HsVar(s, r, W) = 0 \/ HsVar(s, i, W) = 0,
        cov |-> HsCov(s, r, i, W),
        var |-> HsVar(s, i, W),
        fwd |-> RSub(Rat(s[i + W + H + 1], s[i + W]), Rat(1, 1))]

\* One entry of `scores` for the candidate window at offset i (0-based i of
\* the code): its end index (the timestamp), the correlation with the
\* recent window as the pair (cov, var) standing for cov / sqrt(var) up to
\* the common positive factor 1 / sd(recent), and the forward return.  The
\* correlation is NaN when either window has zero deviation.
HsScore(s, i, W, H) ==
    LET r == Len(s) - W
    IN [asof |-> i + W,
        nan |-> HsVar(s, r, W) = 0 \/ HsVar(s, i, W) = 0,
        cov |-> HsCov(s, r, i, W),
        var |-> HsVar(s, i, W),
        fwd |-> RSub(Rat(s[i + W + H], s[i + W]), Rat(1, 1))]

\* x.corr < y.corr on floats: false when either is NaN.
HsCorrLT(x, y) ==
    /\ ~x.nan /\ ~y.nan
    /\ IF x.cov < 0 /\ y.cov >= 0 THEN TRUE
       ELSE IF x.cov >= 0 /\ y.cov < 0 THEN FALSE
       ELSE IF x.cov >= 0
            THEN x.cov * x.cov * y.var < y.cov * y.cov * x.var
            ELSE x.cov * x.cov * y.var > y.cov * y.cov * x.var

RECURSIVE Reverse(_)
Reverse(a) == IF Len(a) = 0 THEN <<>> ELSE Append(Reverse(Tail(a)), Head(a))

\* list.sort of CPython for fewer than 64 elements: the leading run
\* (count_run; reversed in place when strictly descending), then a binary
\* insertion of each remaining element.
RECURSIVE HsRunDesc(_, _)
HsRunDesc(a, k) ==
    IF k < Len(a) /\ HsCorrLT(a[k + 1], a[k]) THEN HsRunDesc(a, k + 1) ELSE k

RECURSIVE HsRunAsc(_, _)
HsRunAsc(a, k) ==
    IF k < Len(a) /\ ~HsCorrLT(a[k + 1], a[k]) THEN HsRunAsc(a, k + 1) ELSE k

RECURSIVE HsBisect(_, _, _, _)
HsBisect(a, pivot, l, r) ==
    IF l >= r THEN l
    ELSE LET p == l + ((r - l) \div 2)
         IN IF HsCorrLT(pivot, a[p]) THEN HsBisect(a, pivot, l, p)
            ELSE HsBisect(a, pivot, p + 1, r)

RECURSIVE HsBinarySort(_, _)
HsBinarySort(a, start) ==
    IF start > Len(a) THEN a
    ELSE LET pivot == a[start]
             l == HsBisect(a, pivot, 1, start)
             moved == SubSeq(a, 1, l - 1) \o <<pivot>> \o SubSeq(a, l, start - 1)
                          \o SubSeq(a, start + 1, Len(a))
         IN HsBinarySort(moved, start + 1)

HsSortAscending(a) ==
    IF Len(a) < 2 THEN a
    ELSE IF HsCorrLT(a[2], a[1])
         THEN LET n == HsRunDesc(a, 2)
                  b == Reverse(SubSeq(a, 1, n)) \o SubSeq(a, n + 1, Len(a))
              IN HsBinarySort(b, n + 1)
         ELSE HsBinarySort(a, HsRunAsc(a, 2) + 1)

\* scores.sort(key=corr, reverse=True): reversed, sorted ascending, reversed.
HsSortedScores(scores) == Reverse(HsSortAscending(Reverse(scores)))

RECURSIVE HsSumFwd(_, _)
HsSumFwd(top, k) == IF k = 0 THEN Rat(0, 1) ELSE RAdd(top[k].fwd, HsSumFwd(top, k - 1))

\* A guard that asks for one full window and horizon only.
HsMinHistoryBare(window, horizon) == window + horizon

\* The history length below which compute gives up (line 28).
HsMinHistory(window, horizon) == window + horizon + 5

\* The `scores` list before it is sorted (lines 41-48), oldest window first.
RECURSIVE HsScoresUpTo(_, _, _, _)
HsScoresUpTo(s, window, horizon, n) ==
    IF n <= 0 THEN <<>>
    ELSE Append(HsScoresUpTo(s, window, horizon, n - 1), HsScore(s, n - 1, window, horizon))

HsScores(s, window, horizon) == HsScoresUpTo(s, window, horizon, Len(s) - window - horizon)

HistorySimilarityIndicator_compute(s, window, horizon, top_k) ==
    IF Len(s) < HsMinHistory(window, horizon) THEN
        Returned(Vote("technicals", "HIST_SIM", "HOLD", 0, Half, "insufficient history", NoData))
    ELSE
        LET count == Len(s) - window - horizon
            scores == HsScores(s, window, horizon)
        IN IF count <= 0 THEN
                Returned(Vote("technicals", "HIST_SIM", "HOLD", 0, Half,
                              "no comparable windows", NoData))
           ELSE
             LET sorted == HsSortedScores(scores)
                 top == SubSeq(sorted, 1, Min(top_k, count))
                 mean_ret == RDiv(HsSumFwd(top, Len(top)), Rat(Len(top), 1))
                 payload == [window |-> window, horizon |-> horizon, top_k |-> top_k,
                             mean_forward_return |-> mean_ret, top_matches |-> top]
             IN IF RGt(mean_ret, Rat(0, 1)) THEN
                    Returned(Vote("technicals", "HIST_SIM", "BUY", 1, Rat(55, 100),
                                  "Avg fwd return among top matches", payload))
                ELSE IF RLt(mean_ret, Rat(0, 1)) THEN
                    Returned(Vote("technicals", "HIST_SIM", "SELL", -1, Rat(55, 100),
                                  "Avg fwd return among top matches", payload))
                ELSE Returned(Vote("technicals", "HIST_SIM", "HOLD", 0, Half,
                                   "Avg fwd return among top matches", payload))

-----------------------------------------------------------------------------
(* P/E ratio: src/pillars/fundamentals/pe_ratio.py *)

RAbs(r) == <<Abs(r[1]), r[2]>>

\* What one yfinance source yields when read: an exception, None, a value
\* that is not a number, an infinite float, or a float (NaN included).
PeRaises == [kind |-> "raise", val |-> NaN]
PeNone == [kind |-> "none", val |-> NaN]
PeText == [kind |-> "str", val |-> NaN]
PeInf == [kind |-> "inf", val |-> NaN]
PeNum(n, d) == [kind |-> "num", val |-> Rat(n, d)]

\* pe is not None and isinstance(pe, (int, float)) and pe > 0 and isfinite(pe)
PeUsable(x) == x.kind = "num" /\ RGt(x.val, Rat(0, 1))

\* get_info(): raises, returns something that is not a dict, or a dict.
InfoRaises == [kind |-> "raise", trailingPE |-> PeNone, forwardPE |-> PeNone]
InfoNotDict == [kind |-> "none", trailingPE |-> PeNone, forwardPE |-> PeNone]
InfoDict(trailing, forward) == [kind |-> "dict", trailingPE |-> trailing, forwardPE |-> forward]

\* The info the fourth source reads: get_info() is called again only when
\* the first call raised ("info" not in locals()).
InfoForForward(y) == IF y.info.kind = "raise" THEN y.info_again ELSE y.info

PeFound(pe, source) == [found |-> TRUE, pe |-> pe, source |-> source]

\* A chain that reads fast_info.forward_pe before get_info()["trailingPE"].
_get_peForwardFirst(y, allow_forward) ==
    IF PeUsable(y.fast_trailing) THEN PeFound(y.fast_trailing.val, "fast_info.trailing_pe")
    ELSE IF allow_forward /\ PeUsable(y.fast_forward)
         THEN PeFound(y.fast_forward.val, "fast_info.forward_pe")
    ELSE IF y.info.kind = "dict" /\ PeUsable(y.info.trailingPE)
         THEN PeFound(y.info.trailingPE.val, "info.trailingPE")
    ELSE IF allow_forward /\ InfoForForward(y).kind = "dict"
                          /\ PeUsable(InfoForForward(y).forwardPE)
         THEN PeFound(InfoForForward(y).forwardPE.val, "info.forwardPE")
    ELSE [found |-> FALSE, pe |-> NaN, source |-> "unavailable"]

_get_pe(y, allow_forward) ==
    IF PeUsable(y.fast_trailing) THEN PeFound(y.fast_trailing.val, "fast_info.trailing_pe")
    ELSE IF y.info.kind = "dict" /\ PeUsable(y.info.trailingPE)
         THEN PeFound(y.info.trailingPE.val, "info.trailingPE")
    ELSE IF allow_forward /\ PeUsable(y.fast_forward)
         THEN PeFound(y.fast_forward.val, "fast_info.forward_pe")
    ELSE IF allow_forward /\ InfoForForward(y).kind = "dict"
                          /\ PeUsable(InfoForForward(y).forwardPE)
         THEN PeFound(InfoForForward(y).forwardPE.val, "info.forwardPE")
    ELSE [found |-> FALSE, pe |-> NaN, source |-> "unavailable"]

\* A confidence scaled by half the threshold gap however small the gap is.
PeConfidenceNoFloor(pe, buy_below, hold_upper) ==
    LET nearest == RMin(RAbs(RSub(pe, buy_below)), RAbs(RSub(pe, hold_upper)))
        scale == RDiv(RSub(hold_upper, buy_below), Rat(2, 1))
    IN RMin(Rat(9, 10),
            RAdd(Half, RMin(Rat(4, 10), RMul(RDiv(nearest, scale), Rat(4, 10)))))

\* conf = min(0.9, 0.5 + min(0.4, nearest / max(1.0, (hold_upper - buy_below) / 2) * 0.4))
PeConfidence(pe, buy_below, hold_upper) ==
    LET nearest == RMin(RAbs(RSub(pe, buy_below)), RAbs(RSub(pe, hold_upper)))
        scale == RMax(Rat(1, 1), RDiv(RSub(hold_upper, buy_below), Rat(2, 1)))
    IN RMin(Rat(9, 10),
            RAdd(Half, RMin(Rat(4, 10), RMul(RDiv(nearest, scale), Rat(4, 10)))))

\* A decision that tests the upper threshold first.
PeDecideUpperFirst(pe, buy_below, hold_upper) ==
    IF RGt(pe, hold_upper) THEN "SELL"
    ELSE IF RLt(pe, buy_below) THEN "BUY"
    ELSE "HOLD"

\* The decision of lines 111-116.
PeDecide(pe, buy_below, hold_upper) ==
    IF RLt(pe, buy_below) THEN "BUY"
    ELSE IF RGt(pe, hold_upper) THEN "SELL"
    ELSE "HOLD"

\* y is what yfinance answers for the ticker; y.ticker = "raise" is
\* yf.Ticker(ticker) raising, which _get_pe does not catch.
PERatioTool_compute(ticker, y, buy_below, hold_upper, allow_forward) ==
    IF y.ticker = "raise" THEN Raised("ValueError")
    ELSE
      LET got == _get_pe(y, allow_forward)
          thresholds == [buy_below |-> buy_below, hold_upper |-> hold_upper]
          data == [ticker |-> ticker, pe |-> got.pe, source |-> got.source,
                   thresholds |-> thresholds]
      IN IF ~got.found THEN
             Returned(Vote("fundamentals", "PE_RATIO", "HOLD", 0, Half,
                           "P/E unavailable from yfinance", data))
         ELSE IF PeDecide(got.pe, buy_below, hold_upper) = "BUY" THEN
             Returned(Vote("fundamentals", "PE_RATIO", "BUY", 1,
                           PeConfidence(got.pe, buy_below, hold_upper),
                           "P/E via " \o got.source, data))
         ELSE IF PeDecide(got.pe, buy_below, hold_upper) = "SELL" THEN
             Returned(Vote("fundamentals", "PE_RATIO", "SELL", -1,
                           PeConfidence(got.pe, buy_below, hold_upper),
                           "P/E via " \o got.source, data))
         ELSE Returned(Vote("fundamentals", "PE_RATIO", "HOLD", 0, Half,
                            "P/E via " \o got.source, data))

-----------------------------------------------------------------------------
(* Sentiment helpers: src/pillars/sentiment/utils.py *)

\* A decay that takes the age as it comes, negative ages included.
exp_decay_weightSigned(age_days, half_life_days) ==
    IF half_life_days <= 0 THEN Rat(1, 1)
    ELSE IF age_days < 0 THEN Rat(Pow(2, (-age_days) \div half_life_days), 1)
    ELSE Rat(1, Pow(2, age_days \div half_life_days))

\* exp(-ln 2 * max(0, age) / half_life).  Ages are whole multiples of the
\* half-life, where the weight is the exact power of 1/2.
exp_decay_weight(age_days, half_life_days) ==
    IF half_life_days <= 0 THEN Rat(1, 1)
    ELSE Rat(1, Pow(2, Max(0, age_days) \div half_life_days))

\* x is a model confidence: [kind |-> "missing" | "none" | "num" | "bad", val]
clamp01(x) ==
    IF x.kind = "none" \/ IsNaN(x.val) THEN Rat(0, 1)
    ELSE RMin(Rat(1, 1), RMax(Rat(0, 1), x.val))

-----------------------------------------------------------------------------
(* Reddit client: src/tools/reddit_client.py *)

\* A comment as the listing yields it: id, subreddit, score, age in days
\* at the time of the call, and whether its body mentions the ticker.
Comment(id, sr, score, age, mentions) ==
    [id |-> id, subreddit |-> sr, score |-> score, age_days |-> age, mentions |-> mentions]

\* out[rc.id] = rc: a dict keeps the position of the first insertion of a
\* key and the value of the last.
DictPut(out, c) ==
    IF \E i \in 1..Len(out) : out[i].id = c.id
    THEN [i \in 1..Len(out) |-> IF out[i].id = c.id THEN c ELSE out[i]]
    ELSE Append(out, c)

\* created_utc < cutoff drops a comment; the pattern must match its body.
Qualifies(c, max_age_days) == c.age_days <= max_age_days /\ c.mentions

RECURSIVE ScanItems(_, _, _, _)
ScanItems(out, items, k, max_age_days) ==
    IF k > Len(items) THEN out
    ELSE ScanItems(IF Qualifies(items[k], max_age_days) THEN DictPut(out, items[k]) ELSE out,
                   items, k + 1, max_age_days)

\* One scan per subreddit: the items its listing yields (at most
\* limit_per_sub) before it either ends or raises; a raise is swallowed and
\* the items matched before it are kept.
RECURSIVE ScanSubreddits(_, _, _, _, _)
ScanSubreddits(out, scans, k, limit_per_sub, max_age_days) ==
    IF k > Len(scans) THEN out
    ELSE ScanSubreddits(
           ScanItems(out, SubSeq(scans[k].items, 1, Min(limit_per_sub, Len(scans[k].items))),
                     1, max_age_days),
           scans, k + 1, limit_per_sub, max_age_days)

\* sorted(..., key=created_utc, reverse=True): newest first, stable.
RECURSIVE NewestFirst(_, _)
NewestFirst(cs, k) ==
    IF k = 0 THEN <<>>
    ELSE LET prev == NewestFirst(cs, k - 1)
             c == cs[k]
             pos == Cardinality({i \in 1..Len(prev) : prev[i].age_days <= c.age_days})
         IN SubSeq(prev, 1, pos) \o <<c>> \o SubSeq(prev, pos + 1, Len(prev))

fetch_recent_comments_for_ticker(reddit, limit_per_sub, max_age_days) ==
    LET out == ScanSubreddits(<<>>, reddit.scans, 1, limit_per_sub, max_age_days)
    IN NewestFirst(out, Len(out))

-----------------------------------------------------------------------------
(* Reddit sentiment: src/pillars/sentiment/reddit_sentiment.py *)

\* 1 + log1p(max(0, score)) / 3.  Scores are either <= 0, where the base is
\* exactly 1, or at least 20, where it exceeds 2; the upper clamp max_w is
\* at most 2, so the clamped weight is the same for the base 2.
ScoreBase(score) == IF score <= 0 THEN Rat(1, 1) ELSE Rat(2, 1)

_score_weight(score, min_w, max_w) == RMin(max_w, RMax(min_w, ScoreBase(score)))

_age_days(c) == Max(0, c.age_days)

\* Per-item model confidences.
ConfMissing == [kind |-> "missing", val |-> Half]
ConfNone == [kind |-> "none", val |-> NaN]
ConfBad == [kind |-> "bad", val |-> NaN]
ConfNum(n, d) == [kind |-> "num", val |-> Rat(n, d)]

\* str(...).strip().title() on the spellings the classifier is given.
TitleCase(s) ==
    CASE s \in {"Bullish", "bullish", " BULLISH "} -> "Bullish"
      [] s \in {"Bearish", "bearish", " BEARISH "} -> "Bearish"
      [] s \in {"Neutral", "neutral"} -> "Neutral"
      [] OTHER -> s

AllowedLabels == {"Bullish", "Bearish", "Neutral"}

\* One element of the parsed response: a dict, or something else.
LlmRow(id, sentiment, confidence) ==
    [kind |-> "dict", id |-> id, sentiment |-> sentiment, confidence |-> confidence]
LlmNotADict == [kind |-> "other", id |-> "", sentiment |-> "", confidence |-> ConfMissing]

RowAccepted(row) == row.id # "" /\ TitleCase(row.sentiment) \in AllowedLabels

\* row.get on a non-dict raises; float(conf) raises on a value that is not a
\* number, and is evaluated only for an accepted row.  float(None) raises too.
RowRaises(row) ==
    \/ row.kind # "dict"
    \/ RowAccepted(row) /\ row.confidence.kind \in {"bad", "none"}

Labelled(id, sentiment, confidence) ==
    [id |-> id, sentiment |-> sentiment, confidence |-> confidence]

NeutralFor(c) == Labelled(c.id, "Neutral", ConfMissing)

\* by_id = {r["id"]: r for r in out}: the last accepted row of an id wins.
ById(rows, id) ==
    LET hits == {i \in 1..Len(rows) : RowAccepted(rows[i]) /\ rows[i].id = id}
    IN IF hits = {} THEN [found |-> FALSE, at |-> 0]
       ELSE [found |-> TRUE, at |-> CHOOSE i \in hits : \A j \in hits : j <= i]

\* llm is the answer of the classification service: [kind |-> "raise"], or
\* [kind |-> "text", json |-> "invalid" | "object" | "list", rows |-> ...].
\* Defined for llm.kind = "text"; llm.invoke raising is not caught here.
_classify_batch(llm, comments) ==
    IF llm.json = "list" /\ ~(\E i \in 1..Len(llm.rows) : RowRaises(llm.rows[i]))
    THEN [k \in 1..Len(comments) |->
             LET hit == ById(llm.rows, comments[k].id)
             IN IF hit.found
                THEN Labelled(comments[k].id, TitleCase(llm.rows[hit.at].sentiment),
                              llm.rows[hit.at].confidence)
                ELSE NeutralFor(comments[k])]
    ELSE [k \in 1..Len(comments) |-> NeutralFor(comments[k])]

\* A label map with the two directions exchanged.
enum_mapInverted(sentiment) ==
    CASE sentiment = "Bullish" -> -1
      [] sentiment = "Bearish" -> 1
      [] OTHER -> 0

enum_map(sentiment) ==
    CASE sentiment = "Bullish" -> 1
      [] sentiment = "Bearish" -> -1
      [] OTHER -> 0

\* A row that counts a label only if the classifier is at least half sure.
ItemRowIfConfident(c, r, half_life_days, min_w, max_w) ==
    [id |-> c.id, subreddit |-> c.subreddit, score |-> c.score, age_days |-> c.age_days,
     weight |-> RMul(exp_decay_weight(_age_days(c), half_life_days),
                     _score_weight(c.score, min_w, max_w)),
     sentiment |-> r.sentiment,
     sentiment_score |-> IF RLt(clamp01(r.confidence), Half) THEN 0 ELSE enum_map(r.sentiment),
     confidence_model |-> clamp01(r.confidence)]

\* The per-comment rows of the aggregation loop.
ItemRow(c, r, half_life_days, min_w, max_w) ==
    [id |-> c.id, subreddit |-> c.subreddit, score |-> c.score, age_days |-> c.age_days,
     weight |-> RMul(exp_decay_weight(_age_days(c), half_life_days),
                     _score_weight(c.score, min_w, max_w)),
     sentiment |-> r.sentiment, sentiment_score |-> enum_map(r.sentiment),
     confidence_model |-> clamp01(r.confidence)]

RECURSIVE WeightedSum(_, _)
WeightedSum(rows, k) ==
    IF k = 0 THEN Rat(0, 1)
    ELSE RAdd(WeightedSum(rows, k - 1),
              RMul(Rat(rows[k].sentiment_score, 1), rows[k].weight))

RECURSIVE WeightDenom(_, _)
WeightDenom(rows, k) ==
    IF k = 0 THEN Rat(0, 1) ELSE RAdd(WeightDenom(rows, k - 1), rows[k].weight)

CountOf(rows, s) == Cardinality({i \in 1..Len(rows) : rows[i].sentiment_score = s})

\* abs(weighted_sum) < 1e-9, without overflowing the integers.
EpsDenominator == 1000000000
BelowEps(r) == ~IsNaN(r) /\ Abs(r[1]) <= (r[2] - 1) \div EpsDenominator

\* A decision that holds on a sum of exactly zero only.
RedditDecideExactZero(weighted_sum, w_denom) ==
    IF weighted_sum = Rat(0, 1) \/ w_denom = Rat(0, 1) THEN "HOLD"
    ELSE IF RGt(weighted_sum, Rat(0, 1)) THEN "BUY"
    ELSE "SELL"

RedditDecide(weighted_sum, w_denom) ==
    IF BelowEps(weighted_sum) \/ w_denom = Rat(0, 1) THEN "HOLD"
    ELSE IF RGt(weighted_sum, Rat(0, 1)) THEN "BUY"
    ELSE "SELL"

\* min(0.9, 0.5 + 0.4 * abs(weighted_sum) / w_denom); the quotient is taken
\* first, which is the same number and keeps the integers small.
RedditConfidence(weighted_sum, w_denom) ==
    IF w_denom = Rat(0, 1) THEN Half
    ELSE RMin(Rat(9, 10), RAdd(Half, RMul(Rat(4, 10), RDiv(RAbs(weighted_sum), w_denom))))

RedditReason(counts) ==
    "Reddit sentiment: bull=" \o ToString(counts.bull) \o " bear=" \o ToString(counts.bear)
        \o " neu=" \o ToString(counts.neu)

SignalVote(signal) == CASE signal = "BUY" -> 1 [] signal = "SELL" -> -1 [] OTHER -> 0

\* The answer of compute and the rows it hands to insert_sentiment_rows
\* (none when it returns early, raises, or has no connection / run id).
ToolOutcome(res, db_rows) == [result |-> res, db_rows |-> db_rows]

\* A persistence step whose exception leaves compute.
PersistStepUnguarded(res, rows, has_db, log) ==
    IF ~has_db THEN ToolOutcome(res, <<>>)
    ELSE IF log = "raise" THEN ToolOutcome(Raised("OperationalError"), <<>>)
    ELSE ToolOutcome(res, rows)

\* Lines 193-217: with a connection and a run id the rows are handed to
\* insert_sentiment_rows inside try / except Exception: pass; res is the
\* answer compute has built by then and returns afterwards.
PersistStep(res, rows, has_db, log) ==
    IF ~has_db THEN ToolOutcome(res, <<>>)
    ELSE IF log = "raise" THEN ToolOutcome(res, <<>>)
    ELSE ToolOutcome(res, rows)

\* An early return shaped like the Vote of a batch with no classified item.
NoMentionsAsComputed(ticker) ==
    Vote("sentiment", "REDDIT_SENTIMENT", "HOLD", 0, Half,
         RedditReason([bull |-> 0, bear |-> 0, neu |-> 0]),
         [ticker |-> ticker, counts |-> [bull |-> 0, bear |-> 0, neu |-> 0],
          weighted_sum |-> Rat(0, 1), w_denom |-> Rat(0, 1), items |-> <<>>])

\* The Vote of the early return of lines 133-139.
NoMentionsVote(ticker) ==
    Vote("sentiment", "REDDIT_SENTIMENT", "HOLD", 0, Half,
         "No recent mentions for " \o ticker,
         [ticker |-> ticker, counts |-> [bull |-> 0, bear |-> 0, neu |-> 0],
          weighted_sum |-> Rat(0, 1)])

RedditBatchSentimentTool_compute(ticker, reddit, p, has_db) ==
    IF reddit.client = "raise" THEN ToolOutcome(Raised("MissingRequiredAttributeException"), <<>>)
    ELSE
      LET all_comments == fetch_recent_comments_for_ticker(reddit, p.max_comments, p.max_age_days)
      IN IF all_comments = <<>> THEN
            ToolOutcome(Returned(NoMentionsVote(ticker)), <<>>)
         ELSE IF reddit.llm.kind = "raise" THEN ToolOutcome(Raised("APIConnectionError"), <<>>)
         ELSE
           \* all_comments[: classify_top_n], classify_top_n >= 0
           LET comments == SubSeq(all_comments, 1, Min(p.classify_top_n, Len(all_comments)))
               results == _classify_batch(reddit.llm, comments)
               rows == [k \in 1..Len(comments) |->
                           ItemRow(comments[k], results[k], p.half_life_days,
                                   p.min_score_weight, p.max_score_weight)]
               weighted_sum == WeightedSum(rows, Len(rows))
               w_denom == WeightDenom(rows, Len(rows))
               counts == [bull |-> CountOf(rows, 1), bear |-> CountOf(rows, -1),
                          neu |-> CountOf(rows, 0)]
               signal == RedditDecide(weighted_sum, w_denom)
           IN PersistStep(
                Returned(Vote("sentiment", "REDDIT_SENTIMENT", signal, SignalVote(signal),
                              RedditConfidence(weighted_sum, w_denom),
                              RedditReason(counts),
                              [ticker |-> ticker, counts |-> counts,
                               weighted_sum |-> weighted_sum, w_denom |-> w_denom,
                               params |-> p, items |-> rows])),
                rows, has_db, reddit.log)

-----------------------------------------------------------------------------
(* Twitter sentiment: src/pillars/sentiment/twitter_sentiment.py *)

_label(score) ==
    IF RGe(score, Rat(5, 100)) THEN "BUY"
    ELSE IF RLe(score, Rat(-5, 100)) THEN "SELL"
    ELSE "HOLD"

\* n / d (n >= 0, d > 0) rounded to the nearest integer, ties to even.
RoundHalfEven(n, d) ==
    LET q == n \div d
        r == n % d
    IN IF 2 * r < d THEN q
       ELSE IF 2 * r > d THEN q + 1
       ELSE IF q % 2 = 0 THEN q ELSE q + 1

\* round(x, digits) for digits = 2 and 4 (scale = 100 and 10000).
Round(x, scale) ==
    LET m == RoundHalfEven(Abs(x[1]) * scale, x[2])
    IN Rat(IF x[1] < 0 THEN -m ELSE m, scale)

\* round(0.5 + 0.45 * min(1.0, abs(score)), 2)
_confidence(score) ==
    Round(RAdd(Half, RMul(Rat(45, 100), RMin(Rat(1, 1), RAbs(score)))), 100)

_candidate_queries(ticker) ==
    <<"(cashtags:" \o ticker \o " OR $" \o ticker \o " OR " \o ticker
          \o ") lang:en -is:retweet -is:reply",
      "(cashtags:" \o ticker \o " OR $" \o ticker \o " OR " \o ticker
          \o ") lang:en -is:retweet",
      ticker \o " lang:en -is:retweet">>

NoDetail == [kind |-> "none"]

_empty_result(reason, detail, used_query, n_texts) ==
    [pillar |-> "sentiment", source |-> "twitter", vote |-> "HOLD",
     score |-> Rat(0, 1), confidence |-> Half,
     meta |-> [used_query |-> used_query, n_texts |-> n_texts,
               reason |-> reason, detail |-> detail]]

\* What search_recent_tweets answers for one query: a page of tweets, each
\* with a text that is blank or not and the VADER compound of that text, or
\* a rate-limit error, or any other error.
Page(tweets) == [kind |-> "page", tweets |-> tweets]
RateLimited == [kind |-> "rate_limited", tweets |-> <<>>]
SearchError == [kind |-> "error", tweets |-> <<>>]
Tweet(blank, compound) == [blank |-> blank, compound |-> compound]

\* The first non-blank text of a page, 0 if there is none.
FirstText(tweets) ==
    IF \E i \in 1..Len(tweets) : ~tweets[i].blank
    THEN CHOOSE i \in 1..Len(tweets) :
            ~tweets[i].blank /\ \A j \in 1..(i - 1) : tweets[j].blank
    ELSE 0

\* The loop over the candidate queries, from query q on.
RECURSIVE TwitterSearch(_, _, _)
TwitterSearch(ticker, answers, q) ==
    LET used_query == _candidate_queries(ticker)[q]
    IN IF answers[q].kind = "rate_limited" THEN
           _empty_result("rate_limited", [kind |-> "rate_limit"], used_query, 0)
       ELSE IF answers[q].kind = "error" THEN
           _empty_result("error:RuntimeError", [kind |-> "message"], used_query, 0)
       ELSE IF FirstText(answers[q].tweets) # 0 THEN
           LET avg_score == answers[q].tweets[FirstText(answers[q].tweets)].compound
           IN [pillar |-> "sentiment", source |-> "twitter",
               vote |-> _label(avg_score),
               score |-> Round(avg_score, 10000),
               confidence |-> _confidence(avg_score),
               meta |-> [used_query |-> used_query, n_texts |-> 1,
                         reason |-> "none", detail |-> NoDetail]]
       ELSE IF q < Len(answers) THEN TwitterSearch(ticker, answers, q + 1)
       ELSE _empty_result("no_tweets", NoDetail, used_query, 0)

\* answers[q] is the answer to the q-th candidate query.
TwitterSentimentTool_fetch_and_score(ticker, answers) ==
    Returned(TwitterSearch(ticker, answers, 1))

-----------------------------------------------------------------------------
(* Persistence: src/db.py *)

\* No database file yet.
NoDatabase ==
    [exists |-> FALSE, runs |-> <<>>, votes |-> <<>>, sentiment_comments |-> <<>>,
     seq |-> [runs |-> 0, votes |-> 0, sentiment_comments |-> 0]]

\* sqlite3.connect creates the file, the schema script is IF NOT EXISTS.
init_db(con) == [con EXCEPT !.exists = TRUE]

\* A rowid that is handed out again.
RowIdReused(last) == 1

\* INTEGER PRIMARY KEY AUTOINCREMENT: one more than the largest rowid the
\* table ever held (sqlite_sequence).
NextRowId(last) == last + 1

\* Returns the connection and cur.lastrowid.
insert_run(con, ticker, asof, price_close) ==
    LET id == NextRowId(con.seq.runs)
    IN [con |-> [con EXCEPT !.runs = Append(@, [id |-> id, ticker |-> ticker, asof |-> asof,
                                                price_close |-> price_close]),
                            !.seq.runs = id],
        lastrowid |-> id]

\* json.dumps(_json_safe(payload or {}))
Json(payload) == [json |-> payload]

insert_vote(con, run_id, pillar, name, vote, confidence, signal, reason, payload) ==
    LET id == NextRowId(con.seq.votes)
    IN [con EXCEPT !.votes = Append(@, [id |-> id, run_id |-> run_id, pillar |-> pillar,
                                        tool |-> name, vote |-> vote,
                                        confidence |-> confidence, signal |-> signal,
                                        reason |-> reason, payload |-> Json(payload)]),
                   !.seq.votes = id]

\* INSERT OR IGNORE under the unique index (run_id, comment_id), row k on.
RECURSIVE InsertCommentRows(_, _, _, _, _)
InsertCommentRows(con, run_id, ticker, rows, k) ==
    IF k > Len(rows) THEN con
    ELSE IF \E i \in 1..Len(con.sentiment_comments) :
                /\ con.sentiment_comments[i].run_id = run_id
                /\ con.sentiment_comments[i].comment_id = rows[k].id
         THEN InsertCommentRows(con, run_id, ticker, rows, k + 1)
    ELSE LET id == NextRowId(con.seq.sentiment_comments)
         IN InsertCommentRows(
              [con EXCEPT !.sentiment_comments =
                              Append(@, [id |-> id, run_id |-> run_id, ticker |-> ticker,
                                         comment_id |-> rows[k].id,
                                         subreddit |-> rows[k].subreddit,
                                         score |-> rows[k].score,
                                         sentiment |-> rows[k].sentiment,
                                         sentiment_score |-> rows[k].sentiment_score,
                                         confidence_model |-> rows[k].confidence_model,
                                         weight |-> rows[k].weight]),
                          !.seq.sentiment_comments = id],
              run_id, ticker, rows, k + 1)

insert_sentiment_rows(con, run_id, ticker, rows) ==
    IF rows = <<>> THEN con ELSE InsertCommentRows(con, run_id, ticker, rows, 1)

-----------------------------------------------------------------------------
(* The collector: src/collector.py *)

\* A row of the price frame the provider returns; has_close is false where
\* the close is not a number.
Row(date, c, v) == [date |-> date, close |-> c, volume |-> v, has_close |-> TRUE]
RowNoClose(date, v) == [date |-> date, close |-> 0, volume |-> v, has_close |-> FALSE]

\* A check that lets every frame through.
DfEmptyNever(df) == FALSE

\* df.empty
DfEmpty(df) == Len(df) = 0

\* _ensure_1d_series(df.get("close")): to_numeric(...).dropna(); the volume
\* is reindexed on the index of close.
WithClose(df) == SelectSeq(df, LAMBDA r : r.has_close)
CloseOf(df) == [i \in 1..Len(WithClose(df)) |-> WithClose(df)[i].close]
VolumeOf(df) == [i \in 1..Len(WithClose(df)) |-> WithClose(df)[i].volume]
AsofOf(df) == WithClose(df)[Len(WithClose(df))].date

\* Defaults of the keyword arguments run_once does not pass to the
\* Triple SMA tool (TripleSMAConfig).
SlopeWindowDefault == 10
SlopeTolDefault == Rat(0, 1)

\* Sentiment runs only if the configuration flag alone allows it.
SentimentEnabledByConfigOnly(enabled_cfg, skip_env) == enabled_cfg

\* sentiment_enabled_cfg and sentiment_enabled_env
SentimentEnabled(enabled_cfg, skip_env) == enabled_cfg /\ skip_env # "1"

PeFallback(exc) ==
    Vote("fundamentals", "PE_RATIO", "HOLD", 0, Half, "PE lookup failed: " \o exc,
         [error |-> exc])

SentimentFallback(exc) ==
    Vote("sentiment", "REDDIT_SENTIMENT", "HOLD", 0, Half,
         "sentiment skipped due to error: " \o exc, [error |-> exc])

SentimentDisabled ==
    Vote("sentiment", "REDDIT_SENTIMENT", "HOLD", 0, Half,
         "sentiment disabled via config/env", NoData)

NoCall == [ticker |-> "", cfg |-> <<>>]
SentimentUnread == [read |-> FALSE, enabled_cfg |-> TRUE, skip_env |-> "0"]

\* The locals of run_once, with the record of what the call has done so
\* far: the tools it invoked, the tools that raised, the flags it read.
IdleLocals ==
    [ticker |-> "", rows_fetched |-> 0, asof |-> <<>>, last_close |-> 0, run_id |-> 0,
     votes |-> <<>>, stored |-> 0, invoked |-> {}, failed |-> {},
     sentiment |-> SentimentUnread, db_before |-> NoDatabase]

NotRunning == pc = "idle" /\ db = NoDatabase /\ locals = IdleLocals /\ calls = <<>>

\* run_once leaves, returning (run_id, votes, meta) or raising exc; the call
\* is appended to the history with the database as it leaves it.
EndCall(outcome, exc, L, db_after) ==
    /\ calls' = Append(calls,
                       [outcome |-> outcome, exc |-> exc, ticker |-> L.ticker,
                        rows_fetched |-> L.rows_fetched, run_id |-> L.run_id,
                        votes |-> L.votes,
                        meta |-> [ticker |-> L.ticker, asof |-> L.asof, close |-> L.last_close],
                        invoked |-> L.invoked, failed |-> L.failed,
                        sentiment |-> L.sentiment,
                        db_before |-> L.db_before, db_after |-> db_after])
    /\ result' = IF outcome = "returned"
                 THEN [kind |-> "run", run_id |-> L.run_id, votes |-> L.votes]
                 ELSE Raised(exc)
    /\ pc' = "idle"
    /\ locals' = IdleLocals
    /\ close' = <<>>
    /\ volume' = <<>>
    /\ params' = NoCall

\* Lines 41-49: fetch the prices, abort on an empty frame, take the series.
Fetch(ticker, cfg, df) ==
    /\ tool = "run_once"
    /\ pc = "idle"
    /\ LET L == [IdleLocals EXCEPT !.ticker = ticker, !.rows_fetched = Len(df),
                                   !.db_before = db]
       IN IF DfEmpty(df) THEN EndCall("raised", "RuntimeError", L, db)
          ELSE IF CloseOf(df) = <<>> THEN EndCall("raised", "IndexError", L, db)
          ELSE /\ pc' = "insert_run"
               /\ params' = [ticker |-> ticker, cfg |-> cfg]
               /\ close' = CloseOf(df)
               /\ volume' = VolumeOf(df)
               /\ locals' = [L EXCEPT !.asof = AsofOf(df),
                                      !.last_close = CloseOf(df)[Len(CloseOf(df))]]
               /\ UNCHANGED <<calls, result>>
    /\ UNCHANGED <<tool, db>>

\* Lines 52-53: persist the run first.
RunOnce_insert_run ==
    /\ pc = "insert_run"
    /\ LET ins == insert_run(init_db(db), locals.ticker, locals.asof, locals.last_close)
       IN /\ db' = ins.con
          /\ locals' = [locals EXCEPT !.run_id = ins.lastrowid]
    /\ pc' = "rsi"
    /\ UNCHANGED <<tool, close, volume, params, result, calls>>

\* A technical tool call that stores its Vote as soon as it has it.
TechStepStoring(name, res, next) ==
    /\ IF res.kind = "raised"
       THEN /\ EndCall("raised", res.exc,
                       [locals EXCEPT !.invoked = @ \cup {name}, !.failed = @ \cup {name}], db)
            /\ db' = db
       ELSE /\ pc' = next
            /\ locals' = [locals EXCEPT !.votes = Append(@, res.v),
                                        !.invoked = @ \cup {name}]
            /\ db' = insert_vote(db, locals.run_id, res.v.pillar, res.v.tool, res.v.vote,
                                 res.v.confidence, res.v.signal, res.v.reason, res.v.data)
            /\ UNCHANGED <<close, volume, params, result, calls>>
    /\ UNCHANGED tool

\* A technical tool call (lines 56-64): its exception leaves run_once.
TechStep(name, res, next) ==
    /\ IF res.kind = "raised"
       THEN EndCall("raised", res.exc,
                    [locals EXCEPT !.invoked = @ \cup {name}, !.failed = @ \cup {name}], db)
       ELSE /\ pc' = next
            /\ locals' = [locals EXCEPT !.votes = Append(@, res.v),
                                        !.invoked = @ \cup {name}]
            /\ UNCHANGED <<close, volume, params, result, calls>>
    /\ UNCHANGED <<tool, db>>

RunOnce_rsi ==
    /\ pc = "rsi"
    /\ TechStep("RSI",
                RSIIndicator_compute(close, params.cfg.rsi.period, params.cfg.rsi.oversold,
                                     params.cfg.rsi.overbought),
                "sma")

RunOnce_sma ==
    /\ pc = "sma"
    /\ TechStep("TRIPLE_SMA",
                TripleSMAIndicator_compute(
                    close,
                    <<params.cfg.sma.short, params.cfg.sma.mid, params.cfg.sma.long>>,
                    params.cfg.sma.equal_is_below, SlopeWindowDefault, SlopeTolDefault),
                "bollinger")

RunOnce_bollinger ==
    /\ pc = "bollinger"
    /\ TechStep("BOLLINGER",
                BollingerIndicator_compute(close, params.cfg.bollinger.window,
                                           params.cfg.bollinger.k[1], params.cfg.bollinger.k[2],
                                           params.cfg.bollinger.equal_is_inside),
                "price_volume")

RunOnce_price_volume ==
    /\ pc = "price_volume"
    /\ TechStep("PRICE_VOLUME",
                PriceVolumeIndicator_compute(close, volume, params.cfg.price_volume.window,
                                             params.cfg.price_volume.vol_ratio_min),
                "hist_sim")

RunOnce_hist_sim ==
    /\ pc = "hist_sim"
    /\ TechStep("HIST_SIM",
                HistorySimilarityIndicator_compute(close, params.cfg.hist_sim.window,
                                                   params.cfg.hist_sim.horizon,
                                                   params.cfg.hist_sim.top_k),
                "pe")

\* Lines 68-76: the P/E tool, its exception replaced by a HOLD vote.
PeStep(y) ==
    /\ pc = "pe"
    /\ LET res == PERatioTool_compute(locals.ticker, y, params.cfg.pe_ratio.buy_below,
                                      params.cfg.pe_ratio.hold_upper,
                                      params.cfg.pe_ratio.allow_forward)
           raised == res.kind = "raised"
       IN locals' = [locals EXCEPT
                        !.votes = Append(@, IF raised THEN PeFallback(res.exc) ELSE res.v),
                        !.invoked = @ \cup {"PE_RATIO"},
                        !.failed = IF raised THEN @ \cup {"PE_RATIO"} ELSE @]
    /\ pc' = "sentiment"
    /\ UNCHANGED <<tool, close, volume, params, result, db, calls>>

\* Lines 79-112: the sentiment tool if enabled, its exception replaced by
\* a HOLD vote; an explicit HOLD vote if disabled.  skip_env is the value
\* of SKIP_SENTIMENT, reddit what Reddit, the classifier and the comment
\* log answer.
SentimentStep(skip_env, reddit) ==
    /\ pc = "sentiment"
    /\ LET read == [read |-> TRUE, enabled_cfg |-> params.cfg.sentiment.enabled,
                    skip_env |-> skip_env]
       IN IF SentimentEnabled(params.cfg.sentiment.enabled, skip_env)
          THEN LET out == RedditBatchSentimentTool_compute(locals.ticker, reddit,
                                                           params.cfg.sentiment, TRUE)
                   raised == out.result.kind = "raised"
               IN /\ locals' = [locals EXCEPT
                                   !.votes = Append(@, IF raised
                                                       THEN SentimentFallback(out.result.exc)
                                                       ELSE out.result.v),
                                   !.invoked = @ \cup {"REDDIT_SENTIMENT"},
                                   !.failed = IF raised THEN @ \cup {"REDDIT_SENTIMENT"} ELSE @,
                                   !.sentiment = read]
                  /\ db' = IF reddit.log = "raise" THEN db
                           ELSE insert_sentiment_rows(db, locals.run_id, locals.ticker,
                                                      out.db_rows)
          ELSE /\ locals' = [locals EXCEPT !.votes = Append(@, SentimentDisabled),
                                           !.sentiment = read]
               /\ db' = db
    /\ pc' = "store"
    /\ UNCHANGED <<tool, close, volume, params, result, calls>>

\* Lines 118-120: one turn of the loop that stores the votes.
RunOnce_insert_vote ==
    /\ pc = "store"
    /\ LET v == locals.votes[locals.stored + 1]
       IN db' = insert_vote(db, locals.run_id, v.pillar, v.tool, v.vote, v.confidence,
                            v.signal, v.reason, v.data)
    /\ locals' = [locals EXCEPT !.stored = @ + 1]
    /\ pc' = IF locals.stored + 1 = Len(locals.votes) THEN "return" ELSE "store"
    /\ UNCHANGED <<tool, close, volume, params, result, calls>>

\* Line 122.
RunOnce_return ==
    /\ pc = "return"
    /\ EndCall("returned", "", locals, db)
    /\ UNCHANGED <<tool, db>>

-----------------------------------------------------------------------------
(* The price series the tool-level specifications draw from *)

Prices == 1..MaxPrice
Series == SeqsOf(Prices, 0, MaxLen)

\* (oversold, overbought) pairs, the default 20/80 among them.
RsiThresholds == {<<20, 80>>, <<30, 70>>, <<0, 100>>, <<50, 50>>}

RsiParams ==
    {[period |-> p, oversold |-> th[1], overbought |-> th[2]] :
        p \in 0..MaxPeriod, th \in RsiThresholds}

InitRSI ==
    /\ tool = "RSI"
    /\ close \in Series
    /\ volume = <<>>
    /\ params \in RsiParams
    /\ result = NoResult
    /\ NotRunning

RSICall ==
    /\ tool = "RSI"
    /\ result = NoResult
    /\ result' = RSIIndicator_compute(close, params.period, params.oversold, params.overbought)
    /\ UNCHANGED <<tool, close, volume, params, pc, db, locals, calls>>

NextRSI == RSICall

SpecRSI == InitRSI /\ [][NextRSI]_vars

-----------------------------------------------------------------------------
(* The Bollinger tool applied to every short series *)

\* Band multipliers k = kn / kd: the default 2.0, and 1.0, 1.5 and 0.
BollKs == {<<2, 1>>, <<1, 1>>, <<3, 2>>, <<0, 1>>}

BollParams ==
    {[window |-> w, kn |-> k[1], kd |-> k[2], equal_is_inside |-> e] :
        w \in 1..MaxLen, k \in BollKs, e \in BOOLEAN}

InitBoll ==
    /\ tool = "BOLLINGER"
    /\ close \in Series
    /\ volume = <<>>
    /\ params \in BollParams
    /\ result = NoResult
    /\ NotRunning

BollCall ==
    /\ tool = "BOLLINGER"
    /\ result = NoResult
    /\ result' = BollingerIndicator_compute(close, params.window, params.kn, params.kd,
                                            params.equal_is_inside)
    /\ UNCHANGED <<tool, close, volume, params, pc, db, locals, calls>>

NextBoll == BollCall

SpecBoll == InitBoll /\ [][NextBoll]_vars

-----------------------------------------------------------------------------
(* The Bollinger tool with its default parameters on a rising series of   *)
(* a full default lookback                                                 *)

LookbackDays == 250
BollDefaultWindow == 20
BollDefaultK == 2

MaxStep == 3
MaxJump == 5

\* A series that rises every session: by `step` each session, and by
\* step + jump in the last one.
RisingSeries(start, step, jump) ==
    [t \in 1..LookbackDays |->
        start + step * (t - 1) + (IF t = LookbackDays THEN jump ELSE 0)]

InitBollRise ==
    /\ tool = "BOLLINGER"
    /\ \E start \in Prices, step \in 1..MaxStep, jump \in 0..MaxJump :
          close = RisingSeries(start, step, jump)
    /\ volume = <<>>
    /\ \E e \in BOOLEAN :
          params = [window |-> BollDefaultWindow, kn |-> BollDefaultK, kd |-> 1,
                    equal_is_inside |-> e]
    /\ result = NoResult
    /\ NotRunning

SpecBollRise == InitBollRise /\ [][NextBoll]_vars

-----------------------------------------------------------------------------
(* The Triple SMA tool applied to every short series *)

SmaSeries == SeqsOf(Prices, 0, MaxLen + 1)

\* (fast, mid, slow) windows: a proper stack, and one whose fast and mid
\* windows are the same.
SmaWindows == {<<1, 2, 3>>, <<1, 1, 2>>}

SmaParams ==
    {[windows |-> w, equal_is_below |-> e, slope_window |-> n, slope_tol |-> tol] :
        w \in SmaWindows, e \in BOOLEAN, n \in {2, 3}, tol \in {Rat(0, 1), Rat(1, 2)}}

InitSMA ==
    /\ tool = "TRIPLE_SMA"
    /\ close \in SmaSeries
    /\ volume = <<>>
    /\ params \in SmaParams
    /\ result = NoResult
    /\ NotRunning

SMACall ==
    /\ tool = "TRIPLE_SMA"
    /\ result = NoResult
    /\ result' = TripleSMAIndicator_compute(close, params.windows, params.equal_is_below,
                                            params.slope_window, params.slope_tol)
    /\ UNCHANGED <<tool, close, volume, params, pc, db, locals, calls>>

NextSMA == SMACall

SpecSMA == InitSMA /\ [][NextSMA]_vars

-----------------------------------------------------------------------------
(* The Twitter tool applied to every combination of search answers *)

Compounds == {Rat(-1, 1), Rat(-1, 20), Rat(0, 1), Rat(1, 25), Rat(1, 20), Rat(3, 5), Rat(1, 1)}

QueryAnswers ==
    {RateLimited, SearchError, Page(<<>>), Page(<<Tweet(TRUE, Rat(0, 1))>>)}
        \cup {Page(<<Tweet(FALSE, c)>>) : c \in Compounds}
        \cup {Page(<<Tweet(TRUE, Rat(1, 1)), Tweet(FALSE, c)>>) : c \in {Rat(-1, 1), Rat(0, 1)}}

InitTwitter ==
    /\ tool = "TWITTER_SENTIMENT"
    /\ close = <<>>
    /\ volume = <<>>
    /\ \E a \in [1..3 -> QueryAnswers] : params = [ticker |-> "AAPL", answers |-> a]
    /\ result = NoResult
    /\ NotRunning

TwitterCall ==
    /\ tool = "TWITTER_SENTIMENT"
    /\ result = NoResult
    /\ result' = TwitterSentimentTool_fetch_and_score(params.ticker, params.answers)
    /\ UNCHANGED <<tool, close, volume, params, pc, db, locals, calls>>

NextTwitter == TwitterCall

SpecTwitter == InitTwitter /\ [][NextTwitter]_vars

-----------------------------------------------------------------------------
(* run_once called repeatedly on one database *)

MaxRuns == 2

Tickers == {"AAPL", "MSFT"}

Day(d) == <<2024, 1, d>>

\* What the price provider holds for each ticker.
PriceFrame(ticker) ==
    IF ticker = "AAPL"
    THEN <<Row(Day(2), 2, 5), Row(Day(3), 3, 5), Row(Day(4), 1, 5), Row(Day(5), 2, 5),
           Row(Day(8), 3, 5), Row(Day(9), 2, 5), Row(Day(10), 1, 5), Row(Day(11), 2, 4),
           Row(Day(12), 3, 9)>>
    ELSE <<Row(Day(9), 3, 10), Row(Day(10), 2, 10), RowNoClose(Day(11), 10),
           Row(Day(12), 1, 30)>>

\* The provider answers with the frame, with nothing, or with rows that
\* carry no close.
PriceAnswers(ticker) == {<<>>, PriceFrame(ticker), <<RowNoClose(Day(12), 10)>>}

\* The configuration of a run: short windows for the short frames, the
\* default thresholds; the RSI period and the sentiment flag vary.
RunConfig(period, enabled) ==
    [rsi |-> [period |-> period, oversold |-> 20, overbought |-> 80],
     sma |-> [short |-> 1, mid |-> 2, long |-> 3, equal_is_below |-> TRUE,
              slope_window |-> 10, slope_tol |-> Rat(0, 1)],
     bollinger |-> [window |-> 3, k |-> <<2, 1>>, equal_is_inside |-> TRUE],
     price_volume |-> [window |-> 2, vol_ratio_min |-> Rat(11, 10)],
     hist_sim |-> [window |-> 2, horizon |-> 1, top_k |-> 3],
     pe_ratio |-> [buy_below |-> Rat(15, 1), hold_upper |-> Rat(25, 1), allow_forward |-> TRUE],
     sentiment |-> [enabled |-> enabled, subreddits |-> <<"stocks">>, max_comments |-> 50,
                    classify_top_n |-> 15, half_life_days |-> 3,
                    min_score_weight |-> Rat(1, 2), max_score_weight |-> Rat(2, 1),
                    max_age_days |-> 7]]

RunConfigs == {RunConfig(period, enabled) : period \in {0, 2}, enabled \in BOOLEAN}

Yf(ticker, fast_trailing, info, info_again, fast_forward) ==
    [ticker |-> ticker, fast_trailing |-> fast_trailing, info |-> info,
     info_again |-> info_again, fast_forward |-> fast_forward]

\* yfinance either fails on the ticker or has a trailing ratio of 10.
YfAnswers ==
    {Yf("raise", PeNone, InfoRaises, InfoRaises, PeNone),
     Yf("ok", PeNum(10, 1), InfoDict(PeNone, PeNone), InfoRaises, PeNone)}

Reddit(client, scans, llm, log) ==
    [client |-> client, scans |-> scans, llm |-> llm, log |-> log]

Scan(items) == [items |-> items]
\* A scan whose listing raises before it yields a comment (line 76).
ScanRaises == [items |-> <<>>, raised |-> TRUE]
LlmRaises == [kind |-> "raise", json |-> "invalid", rows |-> <<>>]
LlmList(rows) == [kind |-> "text", json |-> "list", rows |-> rows]

\* Reddit is either unreachable, or has one recent popular comment that
\* mentions the ticker and that the classifier calls bullish.
RedditAnswers ==
    {Reddit("raise", <<>>, LlmRaises, "ok"),
     Reddit("ok", <<Scan(<<Comment("c1", "stocks", 25, 3, TRUE)>>)>>,
            LlmList(<<LlmRow("c1", "bullish", ConfNum(8, 10))>>), "ok")}

Init ==
    /\ tool = "run_once"
    /\ close = <<>>
    /\ volume = <<>>
    /\ params = NoCall
    /\ result = NoResult
    /\ NotRunning

RunOnce_fetch ==
    /\ Len(calls) < MaxRuns
    /\ \E ticker \in Tickers, cfg \in RunConfigs :
          \E df \in PriceAnswers(ticker) : Fetch(ticker, cfg, df)

RunOnce_pe == \E y \in YfAnswers : PeStep(y)

RunOnce_sentiment ==
    \E skip_env \in {"0", "1"}, reddit \in RedditAnswers : SentimentStep(skip_env, reddit)

Next ==
    \/ RunOnce_fetch
    \/ RunOnce_insert_run
    \/ RunOnce_rsi
    \/ RunOnce_sma
    \/ RunOnce_bollinger
    \/ RunOnce_price_volume
    \/ RunOnce_hist_sim
    \/ RunOnce_pe
    \/ RunOnce_sentiment
    \/ RunOnce_insert_vote
    \/ RunOnce_return

Spec == Init /\ [][Next]_vars

-----------------------------------------------------------------------------
(* C1: the Vote contract *)

VoteFields == {"pillar", "tool", "signal", "vote", "confidence", "reason", "data"}

VoteContract(v) ==
    /\ VoteFields \subseteq DOMAIN v
    /\ v.vote \in {-1, 0, 1}
    /\ RGe(v.confidence, Rat(0, 1)) /\ RLe(v.confidence, Rat(1, 1))
    /\ (v.vote = 1 <=> v.signal = "BUY")
    /\ (v.vote = -1 <=> v.signal = "SELL")
    /\ (v.vote = 0 <=> v.signal = "HOLD")

\* C1: every Vote a tool returns, and every Vote run_once holds (the
\* fallback Votes included), has the Vote fields with vote in {-1, 0, 1},
\* confidence in [0, 1] and the signal that matches the sign of vote.
C1_VoteContract ==
    /\ result.kind = "vote" => VoteContract(result.v)
    /\ \A k \in 1..Len(locals.votes) : VoteContract(locals.votes[k])

-----------------------------------------------------------------------------
(* C2 - C5: run_once *)

Call(i) == calls[i]
Returned_(i) == calls[i].outcome = "returned"

VoteRowsOf(d, run_id) == SelectSeq(d.votes, LAMBDA r : r.run_id = run_id)
RunRowsOf(d, run_id) == SelectSeq(d.runs, LAMBDA r : r.id = run_id)

\* C2: a call in which a tool raised still returns, with a HOLD Vote
\* (vote 0) for each tool that raised and all seven Votes persisted.
C2_FailureIsolated ==
    \A i \in 1..Len(calls) :
        Call(i).failed # {} =>
            /\ Returned_(i)
            /\ Len(Call(i).votes) = 7
            /\ \A k \in 1..Len(Call(i).votes) :
                  Call(i).votes[k].tool \in Call(i).failed =>
                      Call(i).votes[k].vote = 0 /\ Call(i).votes[k].signal = "HOLD"
            /\ Len(VoteRowsOf(Call(i).db_after, Call(i).run_id)) = 7

ToolOrder ==
    <<"RSI", "TRIPLE_SMA", "BOLLINGER", "PRICE_VOLUME", "HIST_SIM", "PE_RATIO",
      "REDDIT_SENTIMENT">>

DisabledByConfig(c) == c.sentiment.read /\ ~c.sentiment.enabled_cfg
DisabledByEnv(c) == c.sentiment.read /\ c.sentiment.skip_env = "1"

\* C3: every call that returned has exactly seven Votes in the fixed tool
\* order; if sentiment was disabled by the configuration or by
\* SKIP_SENTIMENT=1, the seventh is the HOLD Vote (vote 0, confidence 0.5)
\* with the "disabled" reason, the sentiment tool was not invoked and no
\* comment row was written.
C3_SevenVotes ==
    \A i \in 1..Len(calls) :
        Returned_(i) =>
            /\ Len(Call(i).votes) = 7
            /\ \A k \in 1..7 : Call(i).votes[k].tool = ToolOrder[k]
            /\ (DisabledByConfig(Call(i)) \/ DisabledByEnv(Call(i))) =>
                  /\ Call(i).votes[7].signal = "HOLD"
                  /\ Call(i).votes[7].vote = 0
                  /\ Call(i).votes[7].confidence = Half
                  /\ Call(i).votes[7].reason = "sentiment disabled via config/env"
                  /\ "REDDIT_SENTIMENT" \notin Call(i).invoked
                  /\ Call(i).db_after.sentiment_comments = Call(i).db_before.sentiment_comments

\* One call returned with sentiment switched off by the environment only,
\* another with the sentiment tool invoked and failing.
C3_Witness ==
    /\ Len(calls) = 2
    /\ Returned_(1) /\ DisabledByEnv(Call(1)) /\ ~DisabledByConfig(Call(1))
    /\ Returned_(2) /\ "REDDIT_SENTIMENT" \in Call(2).failed

\* C4: a call whose price frame came back empty raised the "no price
\* data" error, invoked no tool, holds no run id and no Vote, and left the
\* database exactly as it found it.
C4_EmptyFrameAborts ==
    \A i \in 1..Len(calls) :
        Call(i).rows_fetched = 0 =>
            /\ Call(i).outcome = "raised"
            /\ Call(i).exc = "RuntimeError"
            /\ Call(i).invoked = {}
            /\ Call(i).run_id = 0
            /\ Call(i).votes = <<>>
            /\ Call(i).db_after = Call(i).db_before

\* An empty frame on a database that an earlier run has filled.
C4_Witness ==
    /\ Len(calls) = 2
    /\ Returned_(1)
    /\ Call(2).rows_fetched = 0
    /\ Len(db.runs) = 1 /\ Len(db.votes) = 7

RunIds(d) == {d.runs[j].id : j \in 1..Len(d.runs)}

\* C5: every call that returned has exactly one Run row, with its ticker,
\* as-of date and close and an id larger than every id the table held
\* before the call, and exactly seven Vote rows under that id, which are
\* its Votes in the returned order; every Vote row belongs to an existing
\* run, a returned one or the one in progress.
C5_RowsPerRun ==
    /\ \A i \in 1..Len(calls) :
          Returned_(i) =>
              LET c == Call(i)
                  rows == VoteRowsOf(db, c.run_id)
              IN /\ Len(RunRowsOf(db, c.run_id)) = 1
                 /\ RunRowsOf(db, c.run_id)[1] =
                        [id |-> c.run_id, ticker |-> c.meta.ticker, asof |-> c.meta.asof,
                         price_close |-> c.meta.close]
                 /\ \A id \in RunIds(c.db_before) : id < c.run_id
                 /\ \A j \in 1..(i - 1) : Call(j).run_id < c.run_id
                 /\ Len(rows) = 7 /\ Len(c.votes) = 7
                 /\ \A k \in 1..7 :
                       /\ rows[k].pillar = c.votes[k].pillar
                       /\ rows[k].tool = c.votes[k].tool
                       /\ rows[k].signal = c.votes[k].signal
                       /\ rows[k].vote = c.votes[k].vote
                       /\ rows[k].confidence = c.votes[k].confidence
                       /\ rows[k].reason = c.votes[k].reason
    /\ \A k \in 1..Len(db.votes) :
          /\ db.votes[k].run_id \in RunIds(db)
          /\ \/ \E i \in 1..Len(calls) : Returned_(i) /\ Call(i).run_id = db.votes[k].run_id
             \/ pc # "idle" /\ db.votes[k].run_id = locals.run_id

\* Two calls returned on the same database, for different tickers.
C5_Witness ==
    /\ Len(calls) = 2
    /\ Returned_(1) /\ Returned_(2)
    /\ Call(1).ticker # Call(2).ticker
    /\ Len(db.runs) = 2 /\ Len(db.votes) = 14

-----------------------------------------------------------------------------
(* Claims about the RSI tool, checked under SpecRSI *)

StrictlyIncreasing(s) == \A t \in 2..Len(s) : s[t - 1] < s[t]
HasDecline(s) == \E t \in 2..Len(s) : s[t] < s[t - 1]
RsiCalled == tool = "RSI" /\ result # NoResult

\* C6: a strictly increasing series with more than period observations is
\* given RSI = 100 and the tool returns SELL (vote -1, confidence 0.6)
\* whenever overbought <= 100.
C6_RisingSeriesSells ==
    (/\ RsiCalled
     /\ params.period >= 1
     /\ Len(close) > params.period
     /\ StrictlyIncreasing(close)
     /\ params.overbought <= 100)
    => /\ result.kind = "vote"
       /\ result.v.signal = "SELL"
       /\ result.v.vote = -1
       /\ result.v.confidence = Rat(6, 10)

\* C7: fewer than period + 1 observations give HOLD (vote 0, confidence
\* 0.5, reason "insufficient data", data {}) and no exception; exactly
\* period + 1 observations with a price decline among them give a computed
\* RSI value, decided against the thresholds: <= oversold BUY 0.6,
\* >= overbought SELL 0.6, else HOLD 0.5.
C7_RsiBoundary ==
    RsiCalled =>
      /\ Len(close) < params.period + 1 =>
            result = Returned(Vote("technicals", "RSI", "HOLD", 0, Half,
                                   "insufficient data", NoData))
      /\ (params.period >= 1 /\ Len(close) = params.period + 1 /\ HasDecline(close)) =>
            /\ result.kind = "vote"
            /\ result.v.reason # "insufficient data"
            /\ result.v.data # NoData
            /\ LET val == result.v.data.last
                   lo == Rat(params.oversold, 1)
                   hi == Rat(params.overbought, 1)
               IN /\ ~IsNaN(val)
                  /\ RLe(Rat(0, 1), val) /\ RLt(val, Rat(100, 1))
                  /\ RLe(val, lo) =>
                        /\ result.v.signal = "BUY" /\ result.v.vote = 1
                        /\ result.v.confidence = Rat(6, 10)
                  /\ (RGt(val, lo) /\ RGe(val, hi)) =>
                        /\ result.v.signal = "SELL" /\ result.v.vote = -1
                        /\ result.v.confidence = Rat(6, 10)
                  /\ (RGt(val, lo) /\ RLt(val, hi)) =>
                        /\ result.v.signal = "HOLD" /\ result.v.vote = 0
                        /\ result.v.confidence = Half

C7_Witness ==
    /\ RsiCalled
    /\ params.period = 2
    /\ Len(close) = params.period + 1
    /\ HasDecline(close)
    /\ result.kind = "vote"
    /\ result.v.signal = "SELL"

-----------------------------------------------------------------------------
(* Claims about the Bollinger tool, checked under SpecBoll *)

BollCalled == tool = "BOLLINGER" /\ result # NoResult /\ Len(close) >= params.window

\* Where the last price stands against the bands of the last window.
PriceAtUpper ==
    /\ ~BollBandsNaN(params.window) /\ BollDev(close, params.window) >= 0
    /\ BollDevSq(close, params.window, params.kd) = BollBandSq(close, params.window, params.kn)
PriceAtLower ==
    /\ ~BollBandsNaN(params.window) /\ BollDev(close, params.window) <= 0
    /\ BollDevSq(close, params.window, params.kd) = BollBandSq(close, params.window, params.kn)
PriceAboveUpper == BollAboveUpper(close, params.window, params.kn, params.kd)
PriceBelowLower == BollBelowLower(close, params.window, params.kn, params.kd)
PriceBetween ==
    /\ ~BollBandsNaN(params.window)
    /\ BollDevSq(close, params.window, params.kd) < BollBandSq(close, params.window, params.kn)

BollSignalIs(sig) ==
    /\ result.kind = "vote"
    /\ result.v.signal = sig
    /\ result.v.vote = (CASE sig = "BUY" -> 1 [] sig = "SELL" -> -1 [] OTHER -> 0)

\* C8 as stated: a price equal to the upper band is SELL when
\* equal_is_inside is false and HOLD when it is true, and symmetrically
\* BUY / HOLD at the lower band; strictly above the upper band is SELL and
\* strictly below the lower band is BUY under either setting; strictly
\* between the bands is HOLD.
C8_TieAtEitherBand ==
    BollCalled =>
      /\ PriceAtUpper => BollSignalIs(IF params.equal_is_inside THEN "HOLD" ELSE "SELL")
      /\ PriceAtLower => BollSignalIs(IF params.equal_is_inside THEN "HOLD" ELSE "BUY")
      /\ PriceAboveUpper => BollSignalIs("SELL")
      /\ PriceBelowLower => BollSignalIs("BUY")
      /\ PriceBetween => BollSignalIs("HOLD")

\* C8 as amended: the tie at the lower band is BUY / HOLD only where the
\* price is not also at the upper band; where the two bands coincide with
\* the price (zero deviation in the window, or k = 0) the upper band is
\* tested first and the tie is SELL / HOLD.
C8_TieUpperFirst ==
    BollCalled =>
      /\ PriceAtUpper => BollSignalIs(IF params.equal_is_inside THEN "HOLD" ELSE "SELL")
      /\ (PriceAtLower /\ ~PriceAtUpper) =>
            BollSignalIs(IF params.equal_is_inside THEN "HOLD" ELSE "BUY")
      /\ PriceAboveUpper => BollSignalIs("SELL")
      /\ PriceBelowLower => BollSignalIs("BUY")
      /\ PriceBetween => BollSignalIs("HOLD")

\* A tie at the upper band of a window with a positive deviation, decided
\* with equal_is_inside false.
C8_Witness ==
    /\ BollCalled
    /\ PriceAtUpper /\ ~PriceAtLower
    /\ BollVar(close, params.window) > 0
    /\ ~params.equal_is_inside
    /\ BollSignalIs("SELL")

-----------------------------------------------------------------------------
(* The rising-series scenario, checked under SpecBollRise *)

ConstantStep(s) == \A t \in 3..Len(s) : s[t] - s[t - 1] = s[2] - s[1]

\* C9 as stated: on a close that rises monotonically for 250 sessions the
\* tool (window 20, k 2.0) finds the last price above the upper band and
\* returns SELL.
C9_RisingSeriesSells ==
    (BollCalled /\ Len(close) = LookbackDays /\ StrictlyIncreasing(close))
    => (PriceAboveUpper /\ BollSignalIs("SELL"))

\* C9 as amended: the tool returns SELL on such a series exactly when the
\* last close is beyond mean + 2 sd of the last 20 closes (a tie counting
\* when equal_is_inside is false), which a rise does not imply: on a rise
\* by a constant increment the last close is inside the bands and the tool
\* returns HOLD with confidence 0.5.
C9_RisingSeriesByBand ==
    (BollCalled /\ Len(close) = LookbackDays /\ StrictlyIncreasing(close))
    => /\ result.kind = "vote"
       /\ result.v.signal = "SELL" <=>
             (PriceAboveUpper \/ (PriceAtUpper /\ ~params.equal_is_inside))
       /\ result.v.signal # "BUY"
       /\ ConstantStep(close) =>
             /\ PriceBetween
             /\ BollSignalIs("HOLD")
             /\ result.v.confidence = Half

C9_Witness ==
    /\ BollCalled
    /\ Len(close) = LookbackDays
    /\ StrictlyIncreasing(close)
    /\ ConstantStep(close)
    /\ params.window = BollDefaultWindow
    /\ BollSignalIs("HOLD")

-----------------------------------------------------------------------------
(* Claims about the Triple SMA tool, checked under SpecSMA *)

SmaCalled == tool = "TRIPLE_SMA" /\ result # NoResult /\ Len(close) > 0

Fast == SmaLast(close, params.windows[1])
Mid == SmaLast(close, params.windows[2])
Slow == SmaLast(close, params.windows[3])
HaveAverages == ~IsNaN(Fast) /\ ~IsNaN(Mid) /\ ~IsNaN(Slow)
SlopeOf(i) == _slope(close, params.windows[i], params.slope_window)

BullishCondition ==
    /\ HaveAverages /\ RGt(Fast, Mid) /\ RGt(Mid, Slow)
    /\ \A i \in 1..3 : RGe(SlopeOf(i), params.slope_tol)
BearishCondition ==
    /\ HaveAverages /\ RLt(Fast, Mid) /\ RLt(Mid, Slow)
    /\ \A i \in 1..3 : RLe(SlopeOf(i), RNeg(params.slope_tol))
AllSlopesPositive == \A i \in 1..3 : RGt(SlopeOf(i), Rat(0, 1))

\* C10: BUY iff fast > mid > slow and all three slopes >= slope_tol, SELL
\* iff fast < mid < slow and all three slopes <= -slope_tol, HOLD in every
\* other case; a misordered or equal pair among the averages forces HOLD
\* even with all three slopes positive; the BUY and the SELL condition
\* never hold together.
C10_StrictAnd ==
    SmaCalled =>
      /\ result.kind = "vote"
      /\ (result.v.signal = "BUY" /\ result.v.vote = 1) <=> BullishCondition
      /\ (result.v.signal = "SELL" /\ result.v.vote = -1) <=> BearishCondition
      /\ (result.v.signal = "HOLD" /\ result.v.vote = 0)
            <=> (~BullishCondition /\ ~BearishCondition)
      /\ ~(BullishCondition /\ BearishCondition)
      /\ (HaveAverages /\ (RLe(Fast, Mid) \/ RLe(Mid, Slow))) => result.v.signal # "BUY"
      /\ (HaveAverages /\ (RLe(Fast, Mid) \/ RLe(Mid, Slow)) /\ AllSlopesPositive)
            => result.v.signal = "HOLD"

\* All three slopes positive, the averages known, one pair out of order
\* or equal: HOLD.
C10_Witness ==
    /\ SmaCalled
    /\ HaveAverages
    /\ AllSlopesPositive
    /\ RGt(Fast, Mid) /\ RLe(Mid, Slow)
    /\ result.v.signal = "HOLD"

-----------------------------------------------------------------------------
(* The Triple SMA tool with its default windows on histories around 200 *)

SmaDefaultFast == 20
SmaDefaultMid == 50
SmaDefaultSlow == 200

MaxHistory == 201

\* A history of n sessions that rises or falls by `step` each session,
\* stays flat, or alternates between two prices.
TrendSeries(n, start, step, shape) ==
    [t \in 1..n |->
        CASE shape = "up" -> start + step * (t - 1)
          [] shape = "down" -> start + step * (n - t)
          [] shape = "zigzag" -> start + step * (t % 2)
          [] OTHER -> start]

InitSmaDefault ==
    /\ tool = "TRIPLE_SMA"
    /\ \E n \in 1..MaxHistory, start \in Prices, step \in 1..MaxStep,
          shape \in {"up", "down", "zigzag", "flat"} :
            close = TrendSeries(n, start, step, shape)
    /\ volume = <<>>
    /\ \E e \in BOOLEAN :
          params = [windows |-> <<SmaDefaultFast, SmaDefaultMid, SmaDefaultSlow>>,
                    equal_is_below |-> e, slope_window |-> SlopeWindowDefault,
                    slope_tol |-> SlopeTolDefault]
    /\ result = NoResult
    /\ NotRunning

SpecSmaDefault == InitSmaDefault /\ [][NextSMA]_vars

\* C11: with windows (20, 50, 200) every non-empty series of at most 199
\* observations gets a returned HOLD Vote (vote 0, confidence 0.5): no
\* exception, no BUY, no SELL.
C11_HoldBelowSlowWindow ==
    (SmaCalled /\ params.windows[3] = SmaDefaultSlow /\ Len(close) < SmaDefaultSlow) =>
        /\ result.kind = "vote"
        /\ result.v.signal = "HOLD"
        /\ result.v.vote = 0
        /\ result.v.confidence = Half

\* At exactly 200 observations a BUY is reached.
C11_Witness ==
    /\ SmaCalled
    /\ params.windows = <<SmaDefaultFast, SmaDefaultMid, SmaDefaultSlow>>
    /\ Len(close) = SmaDefaultSlow
    /\ result.v.signal = "BUY"

-----------------------------------------------------------------------------
(* The history-similarity tool applied to every short series *)

MaxHistPrice == 2
MaxHistLen == 8
MaxHistLongLen == 11

HistPrices == 1..MaxHistPrice
HistSeries == SeqsOf(HistPrices, 0, MaxHistLen)

HistParams ==
    {[window |-> w, horizon |-> h, top_k |-> k] : w \in {1, 2}, h \in {1, 2}, k \in {1, 10}}

InitHist ==
    /\ tool = "HIST_SIM"
    /\ close \in HistSeries
    /\ volume = <<>>
    /\ params \in HistParams
    /\ result = NoResult
    /\ NotRunning

HistCall ==
    /\ tool = "HIST_SIM"
    /\ result = NoResult
    /\ result' = HistorySimilarityIndicator_compute(close, params.window, params.horizon,
                                                    params.top_k)
    /\ UNCHANGED <<tool, close, volume, params, pc, db, locals, calls>>

NextHist == HistCall

SpecHist == InitHist /\ [][NextHist]_vars

\* Longer series, for one window and horizon: long enough for the sort to
\* go past its leading run.
HistLongSeries == SeqsOf(HistPrices, MaxHistLongLen - 1, MaxHistLongLen)

InitHistLong ==
    /\ tool = "HIST_SIM"
    /\ close \in HistLongSeries
    /\ volume = <<>>
    /\ \E k \in {1, 2, 10} : params = [window |-> 2, horizon |-> 1, top_k |-> k]
    /\ result = NoResult
    /\ NotRunning

SpecHistLong == InitHistLong /\ [][NextHist]_vars

HistCalled == tool = "HIST_SIM" /\ result # NoResult

HistLongEnough == Len(close) >= HsMinHistory(params.window, params.horizon)

\* C12: every series shorter than window + horizon + 5, the empty one
\* included, gets HOLD with vote 0, confidence 0.5, the reason
\* "insufficient history" and empty data, and nothing is raised.
C12_ShortHistoryHolds ==
    (HistCalled /\ Len(close) < params.window + params.horizon + 5) =>
        result = Returned(Vote("technicals", "HIST_SIM", "HOLD", 0, Half,
                               "insufficient history", NoData))

C12_Witness ==
    /\ HistCalled
    /\ Len(close) = params.window + params.horizon + 4
    /\ result.v.reason = "insufficient history"

\* The candidate windows of the call under inspection, oldest first, and the
\* matches and the mean the Vote reports.
HistCandidates == HsScores(close, params.window, params.horizon)
HistTop == result.v.data.top_matches
HistMean == result.v.data.mean_forward_return

SeqRange(a) == {a[i] : i \in 1..Len(a)}

HsCorrEq(x, y) == ~x.nan /\ ~y.nan /\ ~HsCorrLT(x, y) /\ ~HsCorrLT(y, x)

\* The matches are the top_k candidates by descending correlation: they
\* are listed in non-increasing order and no candidate left out correlates
\* better than one that was taken.
HistRankedByCorrelation ==
    /\ Len(HistTop) = Min(params.top_k, Len(HistCandidates))
    /\ SeqRange(HistTop) \subseteq SeqRange(HistCandidates)
    /\ \A i, j \in 1..Len(HistTop) : i < j => ~HsCorrLT(HistTop[i], HistTop[j])
    /\ \A c \in SeqRange(HistCandidates) \ SeqRange(HistTop) :
          \A t \in SeqRange(HistTop) : ~HsCorrLT(t, c)

\* The vote is the sign of the arithmetic mean of the matches' forward
\* returns.
HistVoteIsSignOfMean ==
    /\ HistMean = RDiv(HsSumFwd(HistTop, Len(HistTop)), Rat(Len(HistTop), 1))
    /\ \A t \in SeqRange(HistTop) :
          t.fwd = RSub(Rat(close[t.asof + params.horizon], close[t.asof]), Rat(1, 1))
    /\ RGt(HistMean, Rat(0, 1)) =>
          result.v.signal = "BUY" /\ result.v.vote = 1 /\ result.v.confidence = Rat(55, 100)
    /\ RLt(HistMean, Rat(0, 1)) =>
          result.v.signal = "SELL" /\ result.v.vote = -1 /\ result.v.confidence = Rat(55, 100)
    /\ HistMean = Rat(0, 1) =>
          result.v.signal = "HOLD" /\ result.v.vote = 0 /\ result.v.confidence = Half

\* C13: with at least window + horizon + 5 observations the candidates are
\* ranked by correlation with the recent window, descending, the first
\* top_k (all of them when there are fewer) are the matches, and the vote is
\* the sign of the mean of their forward returns.
C13_TopKByCorrelation ==
    (HistCalled /\ HistLongEnough) =>
        /\ result.kind = "vote"
        /\ HistRankedByCorrelation
        /\ HistVoteIsSignOfMean

\* C14: among candidates with the same correlation the earlier one comes
\* first: a match is preceded by every earlier candidate that correlates
\* exactly as well.
C14_TiesEarliestFirst ==
    (HistCalled /\ HistLongEnough) =>
        \A j \in 1..Len(HistTop) :
            \A c \in SeqRange(HistCandidates) :
                (HsCorrEq(c, HistTop[j]) /\ c.asof < HistTop[j].asof) =>
                    \E i \in 1..(j - 1) : HistTop[i] = c

-----------------------------------------------------------------------------
(* The P/E tool applied to every combination of yfinance answers *)

\* Ratios around the thresholds below, 14.8 and 15.5 among them.
PeRatios ==
    {Rat(10, 1), Rat(14, 1), Rat(74, 5), Rat(15, 1), Rat(31, 2), Rat(16, 1),
     Rat(20, 1), Rat(25, 1), Rat(26, 1), Rat(30, 1)}

\* (buy_below, hold_upper): the default, a gap narrower than 2, a gap of
\* zero, and thresholds given the wrong way round.
PeThresholds ==
    {<<Rat(15, 1), Rat(25, 1)>>, <<Rat(15, 1), Rat(16, 1)>>,
     <<Rat(20, 1), Rat(20, 1)>>, <<Rat(25, 1), Rat(15, 1)>>}

PeFastAnswers ==
    {PeRaises, PeNone, PeText, PeInf, PeNum(0, 1), PeNum(-5, 1), [kind |-> "num", val |-> NaN]}
        \cup {[kind |-> "num", val |-> r] : r \in PeRatios}

PeInfoAnswers ==
    {InfoRaises, InfoNotDict, InfoDict(PeNone, PeNone), InfoDict(PeNum(14, 1), PeNum(30, 1)),
     InfoDict(PeInf, PeNum(30, 1))}

PeYfAnswers ==
    {Yf("raise", PeNone, InfoRaises, InfoRaises, PeNone)}
        \cup {Yf("ok", ft, info, again, ff) :
                ft \in PeFastAnswers, info \in PeInfoAnswers,
                again \in {InfoRaises, InfoDict(PeNone, PeNum(26, 1))},
                ff \in {PeNone, PeRaises, PeNum(0, 1), PeNum(10, 1)}}

InitPE ==
    /\ tool = "PE_RATIO"
    /\ close = <<>>
    /\ volume = <<>>
    /\ \E t \in Tickers, y \in PeYfAnswers, th \in PeThresholds, fwd \in BOOLEAN :
          params = [ticker |-> t, y |-> y, buy_below |-> th[1], hold_upper |-> th[2],
                    allow_forward |-> fwd]
    /\ result = NoResult
    /\ NotRunning

PECall ==
    /\ tool = "PE_RATIO"
    /\ result = NoResult
    /\ result' = PERatioTool_compute(params.ticker, params.y, params.buy_below,
                                     params.hold_upper, params.allow_forward)
    /\ UNCHANGED <<tool, close, volume, params, pc, db, locals, calls>>

NextPE == PECall

SpecPE == InitPE /\ [][NextPE]_vars

\* _get_pe has returned: the ratio it found, if any.
PeCalled == tool = "PE_RATIO" /\ result # NoResult /\ params.y.ticker = "ok"
PeGot == _get_pe(params.y, params.allow_forward)
PeVoteIs(signal, vote) ==
    result.kind = "vote" /\ result.v.signal = signal /\ result.v.vote = vote
PeHolds == PeVoteIs("HOLD", 0) /\ result.v.confidence = Half

\* C15: an available ratio below buy_below is BUY, one above hold_upper is
\* SELL, one from buy_below to hold_upper (both ends included) is HOLD with
\* confidence 0.5; an unavailable ratio is HOLD with confidence 0.5 and a
\* reason that says so, and nothing is raised.
C15_ThreeBands ==
    PeCalled =>
        /\ result.kind = "vote"
        /\ ~PeGot.found =>
              PeHolds /\ result.v.reason = "P/E unavailable from yfinance"
        /\ (PeGot.found /\ RLt(PeGot.pe, params.buy_below)) => PeVoteIs("BUY", 1)
        /\ (PeGot.found /\ RGt(PeGot.pe, params.hold_upper)) => PeVoteIs("SELL", -1)
        /\ (PeGot.found /\ RLe(params.buy_below, PeGot.pe)
                        /\ RLe(PeGot.pe, params.hold_upper)) => PeHolds

\* C15 as the code has it: the lower threshold is tested first, so with
\* buy_below above hold_upper a ratio below buy_below is BUY even when it is
\* above hold_upper; SELL needs a ratio above hold_upper and not below
\* buy_below; everything else, both thresholds included, is HOLD.
C15_LowerThresholdFirst ==
    PeCalled =>
        /\ result.kind = "vote"
        /\ ~PeGot.found =>
              PeHolds /\ result.v.reason = "P/E unavailable from yfinance"
        /\ (PeGot.found /\ RLt(PeGot.pe, params.buy_below)) => PeVoteIs("BUY", 1)
        /\ (PeGot.found /\ RGe(PeGot.pe, params.buy_below)
                        /\ RGt(PeGot.pe, params.hold_upper)) => PeVoteIs("SELL", -1)
        /\ (PeGot.found /\ RGe(PeGot.pe, params.buy_below)
                        /\ RLe(PeGot.pe, params.hold_upper)) => PeHolds

\* A ratio between thresholds given the wrong way round has been voted on.
C15_Witness ==
    /\ PeCalled
    /\ PeGot.found
    /\ RGt(PeGot.pe, params.hold_upper)
    /\ RLt(PeGot.pe, params.buy_below)
    /\ result.v.signal = "BUY"

\* The distance d from the ratio found to the nearer threshold, and half the
\* threshold gap h.
PeDistanceOf(pe) ==
    RMin(RAbs(RSub(pe, params.buy_below)), RAbs(RSub(pe, params.hold_upper)))
PeHalfGap == RDiv(RSub(params.hold_upper, params.buy_below), Rat(2, 1))
PeScaled(d, h) == RMin(Rat(9, 10), RAdd(Half, RDiv(RMul(Rat(4, 10), d), h)))
SameRat(a, b) == RLe(a, b) /\ RLe(b, a)

\* A BUY or SELL has been returned under thresholds in their proper order.
PeDirectional ==
    /\ PeCalled
    /\ PeGot.found
    /\ result.kind = "vote"
    /\ result.v.vote # 0
    /\ RLt(params.buy_below, params.hold_upper)

\* The confidence lies in [0.5, 0.9] and no ratio with the same decision
\* and a smaller or equal distance gets a higher one.
PeConfidenceMonotone ==
    /\ RGe(result.v.confidence, Half)
    /\ RLe(result.v.confidence, Rat(9, 10))
    /\ \A r \in PeRatios :
          (/\ PeDecide(r, params.buy_below, params.hold_upper) = result.v.signal
           /\ RLe(PeDistanceOf(r), PeDistanceOf(PeGot.pe))) =>
              RLe(PeConfidence(r, params.buy_below, params.hold_upper), result.v.confidence)

\* C16: the confidence of a BUY or SELL is min(0.9, 0.5 + 0.4 * d / h) with
\* h half the threshold gap, whenever buy_below < hold_upper; it does not
\* decrease with d and lies in [0.5, 0.9].
C16_ScaledByHalfGap ==
    PeDirectional =>
        /\ SameRat(result.v.confidence, PeScaled(PeDistanceOf(PeGot.pe), PeHalfGap))
        /\ PeConfidenceMonotone

\* C16 as the code has it: the divisor is max(1.0, h), so under a gap
\* narrower than 2 the distance is not scaled up.
C16_ScaledByFlooredHalfGap ==
    PeDirectional =>
        /\ SameRat(result.v.confidence,
                   PeScaled(PeDistanceOf(PeGot.pe), RMax(Rat(1, 1), PeHalfGap)))
        /\ PeConfidenceMonotone

\* A BUY under a gap narrower than 2, with a confidence short of the cap.
C16_Witness ==
    /\ PeDirectional
    /\ RLt(PeHalfGap, Rat(1, 1))
    /\ RGt(result.v.confidence, Half)
    /\ RLt(result.v.confidence, Rat(9, 10))

-----------------------------------------------------------------------------
(* The Reddit sentiment tool applied to small batches of comments *)

\* Two popular fresh comments of the same age and score, an unpopular one
\* three days old, an unpopular one thirty days old, and one that does not
\* mention the ticker.
RedditPool ==
    [c1 |-> Comment("c1", "stocks", 25, 0, TRUE),
     c2 |-> Comment("c2", "stocks", 25, 0, TRUE),
     c3 |-> Comment("c3", "investing", 0, 3, TRUE),
     c4 |-> Comment("c4", "stocks", 0, 30, TRUE),
     c5 |-> Comment("c5", "stocks", 25, 0, FALSE)]

\* The listings of the subreddits scanned.
RedditScans ==
    {<<Scan(<<>>)>>,
     <<Scan(<<RedditPool.c5>>)>>,
     <<Scan(<<RedditPool.c1>>)>>,
     <<Scan(<<RedditPool.c1, RedditPool.c2>>)>>,
     <<Scan(<<RedditPool.c1, RedditPool.c5>>), Scan(<<RedditPool.c3, RedditPool.c2>>)>>,
     <<Scan(<<RedditPool.c4>>)>>}

LlmLabels(l1, l2, l3, l4) ==
    LlmList(<<LlmRow("c1", l1, ConfNum(8, 10)), LlmRow("c2", l2, ConfMissing),
              LlmRow("c3", l3, ConfNum(3, 2)), LlmRow("c4", l4, ConfNum(1, 2))>>)

\* The classifier: unreachable, answering with something that is not JSON,
\* or labelling every comment.
RedditLlmAnswers ==
    {LlmRaises,
     [kind |-> "text", json |-> "invalid", rows |-> <<>>],
     LlmLabels("Bullish", "bullish", "Bullish", "Bullish"),
     LlmLabels("Bearish", "Bearish", " BEARISH ", "bearish"),
     LlmLabels("Bullish", "Bearish", "Neutral", "Neutral"),
     LlmLabels("Bullish", "Bullish", "Bearish", "Bearish")}

RedditParams ==
    {[subreddits |-> <<"stocks", "investing">>, max_comments |-> m, classify_top_n |-> n,
      half_life_days |-> hl, min_score_weight |-> w[1], max_score_weight |-> w[2],
      max_age_days |-> age] :
        m \in {1, 50}, n \in {0, 1, 15}, hl \in {0, 1, 3},
        w \in {<<Rat(1, 2), Rat(2, 1)>>, <<Rat(1, 1), Rat(1, 1)>>, <<Rat(0, 1), Rat(0, 1)>>,
               <<Rat(-1, 1), Rat(-1, 1)>>},
        age \in {7, 30}}

InitReddit ==
    /\ tool = "REDDIT_SENTIMENT"
    /\ close = <<>>
    /\ volume = <<>>
    /\ \E t \in Tickers, scans \in RedditScans, llm \in RedditLlmAnswers, p \in RedditParams :
          params = [ticker |-> t, reddit |-> Reddit("ok", scans, llm, "ok"), p |-> p]
    /\ result = NoResult
    /\ NotRunning

\* compute without a connection (db_con=None): nothing is persisted.
RedditCall ==
    /\ tool = "REDDIT_SENTIMENT"
    /\ result = NoResult
    /\ result' = RedditBatchSentimentTool_compute(params.ticker, params.reddit, params.p,
                                                  FALSE).result
    /\ UNCHANGED <<tool, close, volume, params, pc, db, locals, calls>>

NextReddit == RedditCall

SpecReddit == InitReddit /\ [][NextReddit]_vars

\* A Vote has come back, and the comments the fetch had found for it.
RedditVoted == tool = "REDDIT_SENTIMENT" /\ result # NoResult /\ result.kind = "vote"
RedditFetched ==
    fetch_recent_comments_for_ticker(params.reddit, params.p.max_comments,
                                     params.p.max_age_days)
RedditData == result.v.data
NoMentionsReason == "No recent mentions for " \o params.ticker

\* C17: with no qualifying comment the tool returns HOLD, vote 0,
\* confidence 0.5 and a reason that says there were no mentions; a Vote
\* computed from a fetch that found comments never has that reason and
\* always has the fields w_denom and items, which the no-mentions Vote
\* lacks, whether it is a computed neutral or has no classified item at all.
C17_NoMentionsDistinct ==
    /\ (tool = "REDDIT_SENTIMENT" /\ result # NoResult /\ RedditFetched = <<>>) =>
          /\ result.kind = "vote"
          /\ result.v.signal = "HOLD" /\ result.v.vote = 0 /\ result.v.confidence = Half
          /\ result.v.reason = NoMentionsReason
          /\ {"w_denom", "items"} \cap DOMAIN RedditData = {}
    /\ (RedditVoted /\ RedditFetched # <<>>) =>
          /\ result.v.reason # NoMentionsReason
          /\ {"w_denom", "items"} \subseteq DOMAIN RedditData

\* A listing whose only comment does not qualify has been answered.
C17_Witness ==
    /\ RedditVoted
    /\ RedditFetched = <<>>
    /\ Len(params.reddit.scans[1].items) > 0
    /\ result.v.reason = NoMentionsReason

\* The items of a computed Vote, their weighted sum and weight denominator
\* recomputed from the rows reported.
RedditItems == RedditData.items
ItemsWeightedSum == WeightedSum(RedditItems, Len(RedditItems))
ItemsWeightDenom == WeightDenom(RedditItems, Len(RedditItems))
RedditComputed == RedditVoted /\ RedditFetched # <<>>

ItemWeighted(r) ==
    /\ r.sentiment_score = (CASE r.sentiment = "Bullish" -> 1
                              [] r.sentiment = "Bearish" -> -1
                              [] OTHER -> 0)
    /\ r.weight = RMul(exp_decay_weight(Max(0, r.age_days), params.p.half_life_days),
                       _score_weight(r.score, params.p.min_score_weight,
                                     params.p.max_score_weight))

\* C18: the sum and the denominator are taken over the classified items
\* with weight = age weight * popularity weight; the Vote is HOLD iff the
\* sum is within 1e-9 of zero or the denominator is zero, otherwise BUY iff
\* the sum is positive and SELL iff it is negative; the confidence is
\* min(0.9, 0.5 + 0.4 * |sum| / denominator), and 0.5 on a zero denominator.
C18_DecisionRule ==
    RedditComputed =>
        LET ws == RedditData.weighted_sum
            dn == RedditData.w_denom
            hold == BelowEps(ws) \/ dn = Rat(0, 1)
        IN /\ \A k \in 1..Len(RedditItems) : ItemWeighted(RedditItems[k])
           /\ ws = ItemsWeightedSum
           /\ dn = ItemsWeightDenom
           /\ (result.v.signal = "HOLD" /\ result.v.vote = 0) <=> hold
           /\ (result.v.signal = "BUY" /\ result.v.vote = 1) <=> (~hold /\ ws[1] > 0)
           /\ (result.v.signal = "SELL" /\ result.v.vote = -1) <=> (~hold /\ ws[1] < 0)
           /\ result.v.confidence =
                  (IF dn = Rat(0, 1) THEN Half
                   ELSE RMin(Rat(9, 10), RAdd(Half, RMul(Rat(4, 10), RDiv(RAbs(ws), dn)))))

\* A sum that is not zero and still within the epsilon has been held.
C18_Witness ==
    /\ RedditComputed
    /\ RedditData.weighted_sum # Rat(0, 1)
    /\ RedditData.w_denom # Rat(0, 1)
    /\ result.v.signal = "HOLD"

\* Every classified item has the given label, and all have the age and
\* score of the first.
Unanimous(label) ==
    /\ Len(RedditItems) >= 1
    /\ \A k \in 1..Len(RedditItems) :
          /\ RedditItems[k].sentiment = label
          /\ RedditItems[k].age_days = RedditItems[1].age_days
          /\ RedditItems[k].score = RedditItems[1].score

\* C19: a non-empty batch that is all Bullish with one age and one score
\* returns BUY (vote 1) with weighted_sum / denominator = 1 and confidence
\* 0.9, whatever its size and whatever half_life_days, min_score_weight and
\* max_score_weight are; an all-Bearish one returns SELL with confidence 0.9.
C19_UnanimousDecides ==
    /\ (RedditComputed /\ Unanimous("Bullish")) =>
          /\ result.v.signal = "BUY" /\ result.v.vote = 1
          /\ RedditData.w_denom # Rat(0, 1)
          /\ RedditData.weighted_sum = RedditData.w_denom
          /\ result.v.confidence = Rat(9, 10)
    /\ (RedditComputed /\ Unanimous("Bearish")) =>
          /\ result.v.signal = "SELL" /\ result.v.vote = -1
          /\ RedditData.w_denom # Rat(0, 1)
          /\ RedditData.weighted_sum = RNeg(RedditData.w_denom)
          /\ result.v.confidence = Rat(9, 10)

\* The weight denominator is at least 1e-9.
WeightsCount == RedditData.w_denom[1] > 0 /\ ~BelowEps(RedditData.w_denom)

\* C19 as the code has it: the same, provided the weight denominator is at
\* least 1e-9; zero weights (max_score_weight = 0) and weights that have
\* decayed below the epsilon give HOLD, negative weights the opposite vote.
C19_UnanimousWithWeight ==
    /\ (RedditComputed /\ Unanimous("Bullish") /\ WeightsCount) =>
          /\ result.v.signal = "BUY" /\ result.v.vote = 1
          /\ RedditData.weighted_sum = RedditData.w_denom
          /\ result.v.confidence = Rat(9, 10)
    /\ (RedditComputed /\ Unanimous("Bearish") /\ WeightsCount) =>
          /\ result.v.signal = "SELL" /\ result.v.vote = -1
          /\ RedditData.weighted_sum = RNeg(RedditData.w_denom)
          /\ result.v.confidence = Rat(9, 10)

\* Two fresh comments, both Bullish, have been voted BUY.
C19_Witness ==
    /\ RedditComputed
    /\ Unanimous("Bullish")
    /\ Len(RedditItems) = 2
    /\ result.v.signal = "BUY"
    /\ result.v.confidence = Rat(9, 10)

\* C20: every Vote of the tool reports the three counts, the weighted sum
\* and the weight denominator; the counts add up to the number of
\* classified items, which is min(fetched comments, classify_top_n) and the
\* number of per-item rows.
C20_EveryVoteAuditable ==
    RedditVoted =>
        /\ {"counts", "weighted_sum", "w_denom", "items"} \subseteq DOMAIN RedditData
        /\ RedditData.counts.bull + RedditData.counts.bear + RedditData.counts.neu
              = Len(RedditData.items)
        /\ Len(RedditData.items) = Min(Len(RedditFetched), params.p.classify_top_n)

\* The same of the Votes computed from a fetch that found comments.
C20_ComputedVoteAuditable ==
    RedditComputed =>
        /\ {"counts", "weighted_sum", "w_denom", "items"} \subseteq DOMAIN RedditData
        /\ RedditData.counts.bull + RedditData.counts.bear + RedditData.counts.neu
              = Len(RedditData.items)
        /\ Len(RedditData.items) = Min(Len(RedditFetched), params.p.classify_top_n)

-----------------------------------------------------------------------------
(* exp_decay_weight applied to ages that are whole numbers of half-lives *)

MaxHalfLives == 12

\* half_life_days: decay disabled (negative, zero) and four half-lives.
HalfLives == {-1, 0, 1, 2, 3, 7}

\* Ages from two half-lives in the future to MaxHalfLives half-lives old;
\* with the decay disabled the unit is a day.
DecayAges(half_life_days) ==
    {k * (IF half_life_days <= 0 THEN 1 ELSE half_life_days) : k \in (-2)..MaxHalfLives}

InitDecay ==
    /\ tool = "exp_decay_weight"
    /\ close = <<>>
    /\ volume = <<>>
    /\ \E hl \in HalfLives : \E age \in DecayAges(hl) :
          params = [age_days |-> age, half_life_days |-> hl]
    /\ result = NoResult
    /\ NotRunning

DecayCall ==
    /\ tool = "exp_decay_weight"
    /\ result = NoResult
    /\ result' = [kind |-> "value", v |-> exp_decay_weight(params.age_days, params.half_life_days)]
    /\ UNCHANGED <<tool, close, volume, params, pc, db, locals, calls>>

NextDecay == DecayCall

SpecDecay == InitDecay /\ [][NextDecay]_vars

DecayCalled == tool = "exp_decay_weight" /\ result # NoResult

\* C21: the weight lies in [0, 1], is 1 at age 0 and 1/2 at age =
\* half_life, does not increase with age, is the weight of age 0 for a
\* negative age, and is exactly 1 for every age when half_life_days <= 0.
C21_DecayWeight ==
    DecayCalled =>
        LET age == params.age_days
            hl == params.half_life_days
            w == result.v
        IN /\ RGe(w, Rat(0, 1)) /\ RLe(w, Rat(1, 1))
           /\ age = 0 => w = Rat(1, 1)
           /\ (hl > 0 /\ age = hl) => w = Rat(1, 2)
           /\ age < 0 => w = exp_decay_weight(0, hl)
           /\ hl <= 0 => w = Rat(1, 1)
           /\ \A younger \in DecayAges(hl) :
                 younger <= age => RGe(exp_decay_weight(younger, hl), w)

\* A comment dated in the future has been weighted under a real half-life.
C21_Witness ==
    /\ DecayCalled
    /\ params.half_life_days > 0
    /\ params.age_days < 0
    /\ result.v = Rat(1, 1)

-----------------------------------------------------------------------------
(* _classify_batch applied to every short response of the classifier *)

MaxRows == 3

\* The elements a response may hold: well-formed rows for c1 and c2, a row
\* with an unknown label, rows whose confidence is not a number or is null,
\* a row for an unknown id, a row without an id, and a non-object.
ResponseRows ==
    {LlmRow("c1", "Bullish", ConfNum(8, 10)),
     LlmRow("c1", "bearish", ConfMissing),
     LlmRow("c2", "Bearish", ConfNum(7, 10)),
     LlmRow("c2", "Strong Buy", ConfNum(9, 10)),
     LlmRow("c2", "Bullish", ConfBad),
     LlmRow("c2", "Bullish", ConfNone),
     LlmRow("zz", "Bullish", ConfNum(1, 2)),
     LlmRow("", "Bearish", ConfNum(1, 2)),
     LlmNotADict}

ClassifierResponses ==
    {[kind |-> "text", json |-> "invalid", rows |-> <<>>],
     [kind |-> "text", json |-> "object", rows |-> <<>>]}
        \cup {LlmList(rows) : rows \in SeqsOf(ResponseRows, 0, MaxRows)}

ClassifiedBatches == {<<>>, <<RedditPool.c1>>, <<RedditPool.c1, RedditPool.c2>>}

InitClassify ==
    /\ tool = "_classify_batch"
    /\ close = <<>>
    /\ volume = <<>>
    /\ \E llm \in ClassifierResponses, comments \in ClassifiedBatches :
          params = [llm |-> llm, comments |-> comments]
    /\ result = NoResult
    /\ NotRunning

ClassifyCall ==
    /\ tool = "_classify_batch"
    /\ result = NoResult
    /\ result' = [kind |-> "value", v |-> _classify_batch(params.llm, params.comments)]
    /\ UNCHANGED <<tool, close, volume, params, pc, db, locals, calls>>

NextClassify == ClassifyCall

SpecClassify == InitClassify /\ [][NextClassify]_vars

ClassifyCalled == tool = "_classify_batch" /\ result # NoResult

\* A row that parses on its own: an object with an id, a known label and a
\* confidence that is absent or a number.
WellFormed(row) ==
    /\ row.kind = "dict"
    /\ row.id # ""
    /\ TitleCase(row.sentiment) \in AllowedLabels
    /\ row.confidence.kind \in {"missing", "num"}

\* The well-formed rows the response has for an id.
WellFormedFor(id) ==
    IF params.llm.json # "list" THEN {}
    ELSE {i \in 1..Len(params.llm.rows) :
             WellFormed(params.llm.rows[i]) /\ params.llm.rows[i].id = id}

\* One output per input comment, in input order, with the input ids.
OnePerComment ==
    /\ Len(result.v) = Len(params.comments)
    /\ \A k \in 1..Len(params.comments) : result.v[k].id = params.comments[k].id

\* C22: whatever the response, the output has one label and confidence
\* per input comment, in order and with its id; an id with no well-formed
\* row is Neutral / 0.5, and an id with a well-formed row keeps a label the
\* response gave it, whatever the rows of the other ids look like.
C22_RejoinPerId ==
    ClassifyCalled =>
        /\ OnePerComment
        /\ \A k \in 1..Len(params.comments) :
              LET rows == WellFormedFor(params.comments[k].id)
              IN IF rows = {}
                 THEN /\ result.v[k].sentiment = "Neutral"
                      /\ result.v[k].confidence = ConfMissing
                 ELSE \E i \in rows :
                         result.v[k].sentiment = TitleCase(params.llm.rows[i].sentiment)

\* The part of C22 that does not depend on the other rows.
C22_OnePerComment == ClassifyCalled => OnePerComment

-----------------------------------------------------------------------------
(* RedditBatchSentimentTool.compute with and without the comment log *)

\* The parameters of the logged calls: all comments kept, every weight
\* range and half-life of RedditParams.
RedditLogParams == {p \in RedditParams : p.max_comments = 50 /\ p.max_age_days = 30}

InitRedditLog ==
    /\ tool = "REDDIT_SENTIMENT_LOG"
    /\ close = <<>>
    /\ volume = <<>>
    /\ \E t \in Tickers, scans \in RedditScans, llm \in RedditLlmAnswers,
          p \in RedditLogParams, has_db \in BOOLEAN, log \in {"ok", "raise"} :
          params = [ticker |-> t, reddit |-> Reddit("ok", scans, llm, log), p |-> p,
                    has_db |-> has_db]
    /\ result = NoResult
    /\ NotRunning

\* compute(..., db_con=con, run_id=1) on a fresh database, or without them.
RedditLogCall ==
    /\ tool = "REDDIT_SENTIMENT_LOG"
    /\ result = NoResult
    /\ LET out == RedditBatchSentimentTool_compute(params.ticker, params.reddit, params.p,
                                                   params.has_db)
       IN /\ result' = out.result
          /\ db' = IF params.has_db
                   THEN insert_sentiment_rows(init_db(db), 1, params.ticker, out.db_rows)
                   ELSE db
    /\ UNCHANGED <<tool, close, volume, params, pc, locals, calls>>

NextRedditLog == RedditLogCall

SpecRedditLog == InitRedditLog /\ [][NextRedditLog]_vars

RedditLogCalled == tool = "REDDIT_SENTIMENT_LOG" /\ result # NoResult

\* What the same call answers when the persistence step is skipped.
VoteWithoutLog ==
    RedditBatchSentimentTool_compute(params.ticker,
                                     [params.reddit EXCEPT !.log = "ok"], params.p, FALSE).result

\* C23: the answer of the sentiment tool is the same whether the
\* per-comment persistence step succeeds, raises or is skipped; a classifier
\* that answered always yields a Vote, and a failing insert stores nothing.
C23_LogIsBestEffort ==
    RedditLogCalled =>
        /\ result = VoteWithoutLog
        /\ params.reddit.llm.kind # "raise" => result.kind = "vote"
        /\ params.reddit.log = "raise" => db.sentiment_comments = <<>>

\* The insert raised on a batch with items, and the Vote came back with them.
C23_Witness ==
    /\ RedditLogCalled
    /\ params.has_db
    /\ params.reddit.log = "raise"
    /\ result.kind = "vote"
    /\ "items" \in DOMAIN result.v.data
    /\ result.v.data.items # <<>>
    /\ result.v.signal = "BUY"

-----------------------------------------------------------------------------
(* One run of run_once over more configurations and more answers *)

\* The slope tolerance the configuration file asks for: the default or 0.1.
SlopeTols == {Rat(0, 1), Rat(1, 10)}

SingleRunConfigs ==
    {[RunConfig(period, enabled) EXCEPT !.sma.slope_tol = tol] :
        period \in {0, 2}, enabled \in BOOLEAN, tol \in SlopeTols}

\* yfinance fails on the ticker, has a trailing ratio of 10, or has no
\* ratio in any of its sources.
SingleRunYfAnswers ==
    YfAnswers \cup {Yf("ok", PeNone, InfoRaises, InfoRaises, PeRaises)}

\* Reddit is unreachable when the client is built; or has one recent
\* popular comment that mentions the ticker, which the classifier calls
\* bullish or fails on; or has no comment at all; or fails every scan.
SingleRunRedditAnswers ==
    RedditAnswers \cup
    {Reddit("ok", <<Scan(<<Comment("c1", "stocks", 25, 3, TRUE)>>)>>, LlmRaises, "ok"),
     Reddit("ok", <<Scan(<<>>)>>, LlmList(<<>>), "ok"),
     Reddit("ok", <<ScanRaises>>, LlmList(<<>>), "ok")}

SingleRun_fetch ==
    /\ calls = <<>>
    /\ \E ticker \in Tickers, cfg \in SingleRunConfigs :
          \E df \in PriceAnswers(ticker) : Fetch(ticker, cfg, df)

SingleRun_pe == \E y \in SingleRunYfAnswers : PeStep(y)

SingleRun_sentiment ==
    \E skip_env \in {"0", "1"}, reddit \in SingleRunRedditAnswers :
        SentimentStep(skip_env, reddit)

NextSingleRun ==
    \/ SingleRun_fetch
    \/ RunOnce_insert_run
    \/ RunOnce_rsi
    \/ RunOnce_sma
    \/ RunOnce_bollinger
    \/ RunOnce_price_volume
    \/ RunOnce_hist_sim
    \/ SingleRun_pe
    \/ SingleRun_sentiment
    \/ RunOnce_insert_vote
    \/ RunOnce_return

SpecSingleRun == Init /\ [][NextSingleRun]_vars

-----------------------------------------------------------------------------
(* C24: the Votes of the failures run_once absorbs *)

\* Every subreddit scan raised.
AllScansFailed(reddit) ==
    /\ reddit.scans # <<>>
    /\ \A k \in 1..Len(reddit.scans) :
          "raised" \in DOMAIN reddit.scans[k] /\ reddit.scans[k].raised

\* The comment source errors, or the classification call fails.
SentimentDegraded(reddit) ==
    \/ reddit.client = "raise"
    \/ AllScansFailed(reddit)
    \/ /\ fetch_recent_comments_for_ticker(reddit, params.cfg.sentiment.max_comments,
                                           params.cfg.sentiment.max_age_days) # <<>>
       /\ reddit.llm.kind = "raise"

LastVote(votes) == votes[Len(votes)]

\* The Vote is a HOLD whose reason is not the one of a source that answered
\* and had no mention of the ticker.
DiagnosedHold(v, ticker) ==
    /\ v.signal = "HOLD"
    /\ v.vote = 0
    /\ v.reason # "No recent mentions for " \o ticker
    /\ v.reason # "sentiment disabled via config/env"
    /\ v.reason # "P/E via fast_info.trailing_pe"

\* The sentiment step, enabled, on a degraded source: run_once goes on to
\* store the votes, and the sentiment Vote is a diagnosed HOLD.
SentimentDegradesLocally(reddit) ==
    \A skip_env \in {"0", "1"} :
        (/\ SentimentStep(skip_env, reddit)
         /\ SentimentEnabled(params.cfg.sentiment.enabled, skip_env)
         /\ SentimentDegraded(reddit))
            => /\ pc' = "store"
               /\ DiagnosedHold(LastVote(locals'.votes), locals.ticker)

\* The P/E step without a usable ratio: run_once goes on, and the P/E Vote
\* is a diagnosed HOLD.
PeDegradesLocally(y) ==
    (PeStep(y) /\ (y.ticker = "raise" \/ ~_get_pe(y, params.cfg.pe_ratio.allow_forward).found))
        => /\ pc' = "sentiment"
           /\ DiagnosedHold(LastVote(locals'.votes), locals.ticker)

\* C24: when the ratio is unavailable, the classification call fails or
\* the comment source errors (every subreddit scan failing included),
\* run_once goes on and the tool's Vote is a HOLD with vote 0 whose reason
\* names the failure, not the reason of a source that found no mentions.
C24_FailuresAreDiagnosed ==
    [][/\ \A y \in SingleRunYfAnswers : PeDegradesLocally(y)
       /\ \A reddit \in SingleRunRedditAnswers : SentimentDegradesLocally(reddit)]_vars

\* The same for the failures that raise out of the tool: a ticker yfinance
\* rejects, no ratio in any source, a Reddit client that cannot be built, a
\* classification call that raises.
C24_RaisedFailuresAreDiagnosed ==
    [][/\ \A y \in SingleRunYfAnswers : PeDegradesLocally(y)
       /\ \A reddit \in {r \in SingleRunRedditAnswers : ~AllScansFailed(r)} :
             SentimentDegradesLocally(reddit)]_vars

-----------------------------------------------------------------------------
(* C25: the configuration the Triple SMA tool runs with *)

\* The Triple SMA Vote of the run under way, once the tool has answered.
SmaVoted == tool = "run_once" /\ pc \notin {"idle", "insert_run", "rsi", "sma"}
                /\ Len(locals.votes) >= 2

\* What the tool answers on the run's prices with the configured windows,
\* equal_is_below, slope_window and slope_tol.
SmaAsConfigured ==
    TripleSMAIndicator_compute(
        close, <<params.cfg.sma.short, params.cfg.sma.mid, params.cfg.sma.long>>,
        params.cfg.sma.equal_is_below, params.cfg.sma.slope_window, params.cfg.sma.slope_tol)

\* C25: the Triple SMA Vote of a run is the one the tool gives with the
\* configured slope_window and slope_tol (and windows and equal_is_below).
C25_SlopeConfigUsed ==
    SmaVoted => locals.votes[2] = SmaAsConfigured.v

\* The Triple SMA Vote of a run is the one the tool gives with the
\* configured windows and equal_is_below and its own slope defaults.
C25_SlopeDefaultsUsed ==
    SmaVoted =>
        locals.votes[2] =
            TripleSMAIndicator_compute(
                close, <<params.cfg.sma.short, params.cfg.sma.mid, params.cfg.sma.long>>,
                params.cfg.sma.equal_is_below, 10, Rat(0, 1)).v

-----------------------------------------------------------------------------
(* C26: the order in which run_once writes its rows *)

\* run_once is past insert_run and has not left.
RunUnderWay == tool = "run_once" /\ pc \notin {"idle", "insert_run"}

\* A tool is being, or is about to be, invoked.
InToolSteps ==
    pc \in {"rsi", "sma", "bollinger", "price_volume", "hist_sim", "pe", "sentiment"}

\* A call that raised after it had invoked a tool.
AbortedInTools(i) == Call(i).outcome = "raised" /\ Call(i).invoked # {}

\* C26: the Run row is stored before any tool is invoked, and no Vote row
\* is stored until all seven Votes exist; a run that aborted in a tool
\* leaves its Run row and no Vote row; the Vote rows of a run number 0 to
\* 7, and 7 only when run_once is about to return or has returned.
C26_RunRowFirstVotesLast ==
    /\ tool = "run_once" /\ pc \in {"idle", "insert_run"} => locals.invoked = {}
    /\ RunUnderWay =>
          LET n == Len(VoteRowsOf(db, locals.run_id))
          IN /\ Len(RunRowsOf(db, locals.run_id)) = 1
             /\ n \in 0..7
             /\ n = locals.stored
             /\ InToolSteps => n = 0
             /\ n > 0 => Len(locals.votes) = 7
             /\ n = 7 <=> pc = "return"
    /\ \A i \in 1..Len(calls) :
          /\ AbortedInTools(i) =>
                /\ Len(RunRowsOf(Call(i).db_after, Call(i).run_id)) = 1
                /\ VoteRowsOf(Call(i).db_after, Call(i).run_id) = <<>>
                /\ VoteRowsOf(db, Call(i).run_id) = <<>>
          /\ Len(VoteRowsOf(db, Call(i).run_id)) \in {0, 7}
          /\ Len(VoteRowsOf(db, Call(i).run_id)) = 7 <=> Returned_(i)

\* A run aborted in a tool, and the next run has stored some of its Votes.
C26_Witness ==
    /\ Len(calls) = 1
    /\ AbortedInTools(1)
    /\ Len(db.runs) = 2
    /\ pc = "store"
    /\ Len(VoteRowsOf(db, locals.run_id)) = 3

-----------------------------------------------------------------------------
(* C27: the confidence a signal carries *)

\* HOLD carries 0.5, BUY and SELL a confidence in [0.5, 0.9].
ConfidenceInBand(v) ==
    /\ v.signal = "HOLD" => v.confidence = Half
    /\ v.signal \in {"BUY", "SELL"} =>
          RGe(v.confidence, Half) /\ RLe(v.confidence, Rat(9, 10))

\* The score weights are not negative.
WeightBoundsSane ==
    /\ RGe(params.p.min_score_weight, Rat(0, 1))
    /\ RGe(params.p.max_score_weight, Rat(0, 1))

\* C27: every HOLD Vote of the Reddit sentiment tool carries confidence
\* 0.5 and every BUY or SELL Vote a confidence in [0.5, 0.9], the HOLD of a
\* weighted sum below the epsilon over a tiny denominator included.
C27_ConfidenceBands ==
    (RedditVoted /\ WeightBoundsSane) => ConfidenceInBand(result.v)

\* The same for the Votes whose weighted sum is exactly zero or at least
\* the epsilon.
C27_ConfidenceBandsAboveEps ==
    (/\ RedditVoted
     /\ WeightBoundsSane
     /\ RedditFetched # <<>> => \/ RedditData.weighted_sum = Rat(0, 1)
                                \/ ~BelowEps(RedditData.weighted_sum))
        => ConfidenceInBand(result.v)

\* The Votes of a run of run_once, fallback Votes included.
C27_RunVotesInBand ==
    tool = "run_once" => \A k \in 1..Len(locals.votes) : ConfidenceInBand(locals.votes[k])

-----------------------------------------------------------------------------
(* C28: the classifier's confidence and the Vote *)

\* Numeric confidences a classifier may give instead: in range, at the
\* ends, below and above the range.
OtherConfidences == {ConfNum(0, 1), ConfNum(1, 4), ConfNum(1, 1), ConfNum(-1, 2), ConfNum(5, 2)}

\* The classifier's answer with every confidence replaced by conf.
WithConfidence(llm, conf) ==
    [llm EXCEPT !.rows = [k \in 1..Len(llm.rows) |-> [llm.rows[k] EXCEPT !.confidence = conf]]]

\* The Vote of the same call had the classifier given conf for every row.
VoteWithConfidence(conf) ==
    RedditBatchSentimentTool_compute(
        params.ticker, [params.reddit EXCEPT !.llm = WithConfidence(params.reddit.llm, conf)],
        params.p, FALSE).result.v

\* What of a Vote the decision is made of.
Decision(v) ==
    [signal |-> v.signal, vote |-> v.vote, confidence |-> v.confidence,
     counts |-> v.data.counts, weighted_sum |-> v.data.weighted_sum,
     w_denom |-> v.data.w_denom]

\* An item row without the classifier's confidence.
WithoutConfidence(r) == [x \in DOMAIN r \ {"confidence_model"} |-> r[x]]

\* C28: signal, vote, confidence, counts, weighted sum and denominator
\* of the sentiment Vote are the same whatever numeric confidences the
\* classifier gives; the item rows differ in confidence_model only, which
\* is the classifier's confidence clamped to [0, 1].
C28_ConfidenceDoesNotInterfere ==
    (RedditComputed /\ params.reddit.llm.json = "list") =>
        \A conf \in OtherConfidences :
            LET other == VoteWithConfidence(conf)
            IN /\ Decision(other) = Decision(result.v)
               /\ other.reason = result.v.reason
               /\ Len(other.data.items) = Len(RedditItems)
               /\ \A k \in 1..Len(RedditItems) :
                     /\ WithoutConfidence(other.data.items[k]) = WithoutConfidence(RedditItems[k])
                     /\ other.data.items[k].confidence_model
                            = RMin(Rat(1, 1), RMax(Rat(0, 1), conf.val))
                     /\ RGe(RedditItems[k].confidence_model, Rat(0, 1))
                     /\ RLe(RedditItems[k].confidence_model, Rat(1, 1))

\* A BUY from a batch in which the classifier gave 1.5 for a comment.
C28_Witness ==
    /\ RedditComputed
    /\ params.reddit.llm.json = "list"
    /\ result.v.signal = "BUY"
    /\ \E k \in 1..Len(RedditItems) :
          RedditItems[k].id = "c3" /\ RedditItems[k].confidence_model = Rat(1, 1)
    /\ VoteWithConfidence(ConfNum(0, 1)).data.items # RedditItems

-----------------------------------------------------------------------------
(* The history-similarity tool on series around the length guard *)

MaxGuardLen == 9

HistGuardSeries == SeqsOf({1, 2}, 5, MaxGuardLen)

HistGuardParams ==
    {[window |-> w, horizon |-> h, top_k |-> 10] : w \in {1, 2, 3}, h \in {0, 1, 2}}

InitHistGuard ==
    /\ tool = "HIST_SIM"
    /\ close \in HistGuardSeries
    /\ volume = <<>>
    /\ params \in HistGuardParams
    /\ result = NoResult
    /\ NotRunning

SpecHistGuard == InitHistGuard /\ [][NextHist]_vars

\* C29: when the series has at least window + horizon + 5 observations
\* (window >= 1, horizon >= 0) there are exactly length - window - horizon
\* >= 5 candidate windows and the tool never answers "no comparable
\* windows"; candidate i (from 0) ends at index i + window - 1 and takes
\* its forward price at index i + window + horizon - 1, which is at most
\* length - 2: never past the data, never the most recent observation.
C29_WindowsInsideSeries ==
    (/\ HistCalled
     /\ params.window >= 1 /\ params.horizon >= 0
     /\ Len(close) >= params.window + params.horizon + 5) =>
        LET count == Len(close) - params.window - params.horizon
            scores == HsScores(close, params.window, params.horizon)
        IN /\ count >= 5
           /\ Len(scores) = count
           /\ result.kind = "vote"
           /\ result.v.reason = "Avg fwd return among top matches"
           /\ Len(result.v.data.top_matches) = Min(params.top_k, count)
           /\ \A i \in 0..(count - 1) :
                 LET last == i + params.window - 1
                     fwd == i + params.window + params.horizon - 1
                 IN /\ last <= fwd
                    /\ fwd <= Len(close) - 2
                    /\ scores[i + 1].asof = last + 1
                    /\ scores[i + 1].fwd
                           = RSub(Rat(close[fwd + 1], close[last + 1]), Rat(1, 1))

\* The guard passes exactly, with five candidates, and the Vote is a BUY.
C29_Witness ==
    /\ HistCalled
    /\ params.horizon = 2
    /\ Len(close) = params.window + params.horizon + 5
    /\ result.v.signal = "BUY"
    /\ Len(result.v.data.top_matches) = 5

-----------------------------------------------------------------------------
(* C30: the order in which the P/E sources are consulted *)

\* A positive finite number.
PositiveFinite(x) == x.kind = "num" /\ ~IsNaN(x.val) /\ x.val[1] > 0 /\ x.val[2] > 0

\* What get_info() holds under a key: nothing when it raised or did not
\* return a dict.
InfoValue(info, key) == IF info.kind = "dict" THEN info[key] ELSE PeNone

\* The four sources in the order of the chain, with their labels; the info
\* read for the forward ratio is that of a second get_info() call when the
\* first one raised.
PeSources ==
    <<[label |-> "fast_info.trailing_pe", forward |-> FALSE, value |-> params.y.fast_trailing],
      [label |-> "info.trailingPE", forward |-> FALSE,
       value |-> InfoValue(params.y.info, "trailingPE")],
      [label |-> "fast_info.forward_pe", forward |-> TRUE, value |-> params.y.fast_forward],
      [label |-> "info.forwardPE", forward |-> TRUE,
       value |-> InfoValue(IF params.y.info.kind = "raise" THEN params.y.info_again
                           ELSE params.y.info, "forwardPE")]>>

\* The positions of the sources that may be consulted and qualify.
PeQualifying ==
    {k \in 1..4 : /\ PositiveFinite(PeSources[k].value)
                  /\ PeSources[k].forward => params.allow_forward}

PeFirstQualifying == CHOOSE k \in PeQualifying : \A j \in PeQualifying : k <= j

\* C30: the ratio is the first positive finite value in the order
\* trailing (fast_info), trailing (info), forward (fast_info), forward
\* (info), the forward ones counting only if allow_forward; a source that
\* raises or is invalid is passed over and nothing is raised; with no
\* qualifying source the ratio is unavailable and the Vote is HOLD, so BUY
\* and SELL rest on a ratio > 0.
C30_FirstUsableSource ==
    PeCalled =>
        /\ result.kind = "vote"
        /\ IF PeQualifying = {}
           THEN /\ PeHolds
                /\ result.v.reason = "P/E unavailable from yfinance"
                /\ result.v.data.source = "unavailable"
           ELSE /\ result.v.data.source = PeSources[PeFirstQualifying].label
                /\ result.v.data.pe = PeSources[PeFirstQualifying].value.val
        /\ result.v.signal \in {"BUY", "SELL"} =>
              /\ PeQualifying # {}
              /\ RGt(result.v.data.pe, Rat(0, 1))

\* Both trailing sources fail (one raises, one holds a NaN or nothing), the
\* forward ratio of fast_info is usable and gives a BUY.
C30_Witness ==
    /\ PeCalled
    /\ params.allow_forward
    /\ params.y.fast_trailing = PeRaises
    /\ params.y.info.kind = "dict"
    /\ ~PositiveFinite(params.y.info.trailingPE)
    /\ result.v.data.source = "fast_info.forward_pe"
    /\ result.v.signal = "BUY"

=============================================================================
